---- MODULE Spec2Model ----
(***************************************************************************)
(* A model of the grocery matching and quantity-resolution engine:         *)
(* VolumeParser, GroceryService and AdvancedSearchEngine.                  *)
(*                                                                         *)
(* Texts are TLA+ strings, read character by character with SubSeq.        *)
(* Amounts are whole numbers and prices are in cents.  Scores are in       *)
(* ten-thousandths (ScoreUnit stands for 1.0); a product or quotient of    *)
(* scores is rounded down to the next ten-thousandth.  The texts of the    *)
(* model carry no decimal comma.                                           *)
(*                                                                         *)
(* A helper that walks a text or a list is a function f[x \in S], so that  *)
(* its arguments are values when its body reads them; the operators named  *)
(* after the program's methods use these functions.                        *)
(***************************************************************************)
EXTENDS Integers, Sequences, FiniteSets, TLC

VARIABLES
  products,     \* GroceryService.products: the catalog, in catalog order
  searchIndex,  \* AdvancedSearchEngine: termFrequency and documentFrequency
  qItem,        \* quantity resolution: the shopping item
  qCand,        \* quantity resolution: the candidate (product, score, tier)
  qOp,          \* quantity resolution: which operation produced qMatch
  qMatch,       \* quantity resolution: the ProductMatch, or Null
  tItem,        \* tiered orchestrator: the shopping item
  tOp,          \* tiered orchestrator: which variant ran
  tAnswers,     \* tiered orchestrator: what the collaborators answered
  tSearches,    \* tiered orchestrator: the tier searches run, in order
  tCandidates,  \* tiered orchestrator: the candidates returned
  fShortlist,   \* quality filter: the shortlist given to applyQualityFilter
  fQuality,     \* quality filter: what the re-ranker answered
  fOp,          \* quality filter: whether applyQualityFilter has returned
  fResult,      \* quality filter: the list applyQualityFilter returned
  eQuery,       \* search engine: the query given to search
  eCategories,  \* search engine: the target categories given to search
  eConfig,      \* search engine: the SearchConfig given to search
  eOp,          \* search engine: whether search has returned
  eResults,     \* search engine: the results search returned
  shoppingList, \* processShoppingList: the text of the shopping list
  shoppingItems,\* processShoppingList: the parsed items
  pc,           \* processShoppingList: where the call stands
  itemsDone,    \* processShoppingList: i, the number of items processed
  processed,    \* processShoppingList: candidates and bestMatch of each iteration
  candidatesLog,\* processShoppingList: the first candidates, by original text
  foundItems,   \* processShoppingList: the matches
  notFound,     \* processShoppingList: the original texts of the items not found
  totalCost,    \* processShoppingList: the total cost of the result
  parseOutcome, \* processShoppingList: how the parse raced against the timeout
  rMaxRetries,  \* retryWithBackoff: maxRetries
  rInitialDelay,\* retryWithBackoff: initialDelay
  rAttempt,     \* retryWithBackoff: attempt, the loop variable
  rOutcomes,    \* retryWithBackoff: what each call of operation did
  rDelays,      \* retryWithBackoff: the delays waited, in order
  rLastError,   \* retryWithBackoff: lastError
  rPc,          \* retryWithBackoff: where the call stands
  rResult,      \* retryWithBackoff: the value returned or the error thrown
  cItem,        \* category fallback: the shopping item
  cAnswer,      \* category fallback: the classifier's answer, or Thrown
  cOp,          \* category fallback: the method that ran
  cCategories,  \* category fallback: the categories returned
  sFile,        \* initializeService: the products file
  sOp,          \* initializeService: how the call ended
  groceryService, \* the singleton of the route
  vInput,       \* VolumeParser: the arguments of the call
  vOp,          \* VolumeParser: the method that ran
  vResult,      \* VolumeParser: what it returned
  dResults,     \* diversifyResults: the ranked results handed over
  dFactor,      \* diversifyResults: the diversity factor
  dOp,          \* diversifyResults: whether it ran
  dOutput,      \* diversifyResults: what it returned
  hPc,          \* POST: where each request stands
  hInit,        \* POST: what the call of initializeService of each request gave
  hService,     \* POST: the service each request holds
  hStatus,      \* POST: the status each request was answered with
  hInstances,   \* the GroceryService instances constructed so far
  xCalls,       \* search: the calls in flight on the one engine
  productIndex  \* AdvancedSearchEngine: the products of each term

qVars == <<qItem, qCand, qOp, qMatch>>

tVars == <<tItem, tOp, tAnswers, tSearches, tCandidates>>

fVars == <<fShortlist, fQuality, fOp, fResult>>

eVars == <<eQuery, eCategories, eConfig, eOp, eResults>>

pVars ==
  <<shoppingList, shoppingItems, pc, itemsDone, processed, candidatesLog, foundItems,
    notFound, totalCost, parseOutcome>>

rVars ==
  <<rMaxRetries, rInitialDelay, rAttempt, rOutcomes, rDelays, rLastError, rPc, rResult>>

cVars == <<cItem, cAnswer, cOp, cCategories>>

sVars == <<sFile, sOp, groceryService>>

vVars == <<vInput, vOp, vResult>>

dVars == <<dResults, dFactor, dOp, dOutput>>

hVars == <<hPc, hInit, hService, hStatus, hInstances>>

xVars == <<xCalls, productIndex>>

vars == <<products, searchIndex, qVars, tVars, fVars, eVars, pVars, rVars, cVars, sVars, vVars, dVars, hVars, xVars>>

----------------------------------------------------------------------------
(* Values standing for JavaScript's null, undefined, Infinity and NaN, and *)
(* for an exception.                                                       *)

Null == [tag |-> "null"]

Thrown == [tag |-> "thrown"]

Undefined == "<undefined>"

JsInfinity == 10 ^ 9

JsNaN == 0 - (10 ^ 9)

IsFinite(x) == x \notin {JsInfinity, JsNaN, 0 - JsInfinity}

\* Math.ceil(a / b) on numbers a >= 0, b >= 0
JsCeilDiv[a \in Int, b \in Int] ==
  IF ~IsFinite(a) \/ ~IsFinite(b) THEN JsNaN
  ELSE IF b = 0 THEN (IF a = 0 THEN JsNaN ELSE JsInfinity)
  ELSE (a + b - 1) \div b

\* a * b on numbers a >= 0, b >= 0
JsMul[a \in Int, b \in Int] ==
  IF a = JsNaN \/ b = JsNaN THEN JsNaN
  ELSE IF a = JsInfinity \/ b = JsInfinity
       THEN (IF a = 0 \/ b = 0 THEN JsNaN ELSE JsInfinity)
  ELSE a * b

\* Math.max(a, b); NaN is contagious
JsMax[a \in Int, b \in Int] ==
  IF a = JsNaN \/ b = JsNaN THEN JsNaN
  ELSE IF a >= b THEN a ELSE b

Min[a \in Int, b \in Int] == IF a <= b THEN a ELSE b

----------------------------------------------------------------------------
(* String helpers: String.prototype.includes, toLowerCase, trim, split.    *)

Texts == Seq(STRING)

CharAt[s \in STRING, i \in Int] == IF i >= 1 /\ i <= Len(s) THEN SubSeq(s, i, i) ELSE ""

StartsAt[s \in STRING, i \in Int, sub \in STRING] ==
  /\ i >= 1
  /\ i + Len(sub) - 1 <= Len(s)
  /\ SubSeq(s, i, i + Len(sub) - 1) = sub

Includes[s \in STRING, sub \in STRING] ==
  \/ Len(sub) = 0
  \/ \E i \in 1..Len(s) : StartsAt[s, i, sub]

UpperChars == "ABCDEFGHIJKLMNOPQRSTUVWXYZÄÖÜ"

LowerChars == "abcdefghijklmnopqrstuvwxyzäöü"

LowerChar[c \in STRING] ==
  IF \E i \in 1..Len(UpperChars) : SubSeq(UpperChars, i, i) = c
  THEN LET i == CHOOSE k \in 1..Len(UpperChars) : SubSeq(UpperChars, k, k) = c
       IN  SubSeq(LowerChars, i, i)
  ELSE c

ToLowerFrom[s \in STRING, i \in Int] ==
  IF i > Len(s) THEN "" ELSE LowerChar[SubSeq(s, i, i)] \o ToLowerFrom[s, i + 1]

ToLowerCase[s \in STRING] == ToLowerFrom[s, 1]

IsSpace(c) == c \in {" ", "\n", "\t"}

\* the first index >= i that holds no white space (\s* is greedy)
SkipSpaces[s \in STRING, i \in Int] ==
  IF IsSpace(CharAt[s, i]) THEN SkipSpaces[s, i + 1] ELSE i

\* the last index <= i that holds no white space
SkipSpacesBack[s \in STRING, i \in Int] ==
  IF IsSpace(CharAt[s, i]) THEN SkipSpacesBack[s, i - 1] ELSE i

Trim[s \in STRING] ==
  IF SkipSpaces[s, 1] > Len(s) THEN ""
  ELSE SubSeq(s, SkipSpaces[s, 1], SkipSpacesBack[s, Len(s)])

\* s.split(sep) for a one-character separator
SplitFrom[s \in STRING, sep \in STRING, start \in Int, i \in Int] ==
  IF i > Len(s) THEN <<SubSeq(s, start, Len(s))>>
  ELSE IF SubSeq(s, i, i) = sep
       THEN <<SubSeq(s, start, i - 1)>> \o SplitFrom[s, sep, i + 1, i + 1]
       ELSE SplitFrom[s, sep, start, i + 1]

Split[s \in STRING, sep \in STRING] == SplitFrom[s, sep, 1, 1]

\* new Set(words)
WordSet[words \in Texts] == {words[i] : i \in 1..Len(words)}

JoinFrom[words \in Texts, sep \in STRING, i \in Int] ==
  IF i > Len(words) THEN ""
  ELSE IF i = Len(words) THEN words[i]
  ELSE words[i] \o sep \o JoinFrom[words, sep, i + 1]

\* words.join(sep)
JoinWith[words \in Texts, sep \in STRING] == JoinFrom[words, sep, 1]

\* s.replace(from, to): the first occurrence only
ReplaceFirstFrom[s \in STRING, from \in STRING, to \in STRING, i \in Int] ==
  IF i > Len(s) THEN s
  ELSE IF StartsAt[s, i, from]
       THEN SubSeq(s, 1, i - 1) \o to \o SubSeq(s, i + Len(from), Len(s))
       ELSE ReplaceFirstFrom[s, from, to, i + 1]

ReplaceFirst[s \in STRING, from \in STRING, to \in STRING] ==
  IF Len(from) = 0 THEN to \o s ELSE ReplaceFirstFrom[s, from, to, 1]

\* s.replace(/\s+/g, ' ')
CollapseSpacesFrom[s \in STRING, i \in Int] ==
  IF i > Len(s) THEN ""
  ELSE IF IsSpace(SubSeq(s, i, i))
       THEN " " \o CollapseSpacesFrom[s, SkipSpaces[s, i]]
       ELSE SubSeq(s, i, i) \o CollapseSpacesFrom[s, i + 1]

CollapseSpaces[s \in STRING] == CollapseSpacesFrom[s, 1]

----------------------------------------------------------------------------
(* VolumeParser (src/src/lib/volume-parser.ts)                             *)

DigitChars == "0123456789"

IsDigit[c \in STRING] == \E i \in 1..Len(DigitChars) : SubSeq(DigitChars, i, i) = c

DigitVal[c \in STRING] == (CHOOSE i \in 1..Len(DigitChars) : SubSeq(DigitChars, i, i) = c) - 1

\* the last index of the run of digits that starts at i (\d+ is greedy)
DigitRunEnd[s \in STRING, i \in Int] ==
  IF IsDigit[CharAt[s, i + 1]] THEN DigitRunEnd[s, i + 1] ELSE i

\* parseFloat of the digits s[i..j]
ParseDigits[s \in STRING, i \in Int, j \in Int] ==
  IF j < i THEN 0 ELSE ParseDigits[s, i, j - 1] * 10 + DigitVal[CharAt[s, j]]

\* a regex alternation (a|b|...): the first alternative that matches at i
FirstAlt[s \in STRING, i \in Int, alts \in Texts] ==
  IF Len(alts) = 0 THEN ""
  ELSE IF StartsAt[s, i, Head(alts)] THEN Head(alts)
  ELSE FirstAlt[s, i, Tail(alts)]

NoMatch == [ok |-> FALSE, amount |-> 0, unit |-> ""]

MatchSet == [ok : BOOLEAN, amount : Int, unit : STRING]

\* the units after the digits, and what the extractor makes of the match
UnitAfter[s \in STRING, i \in Int, e \in Int, u \in STRING] ==
  IF u = "" THEN NoMatch ELSE [ok |-> TRUE, amount |-> ParseDigits[s, i, e], unit |-> u]

\* /(\d+(?:,\d+)?)\s*(kg|g|ml|l|stück|stuck)/i matched at start i
Pattern1At[s \in STRING, i \in Int] ==
  IF ~IsDigit[CharAt[s, i]] THEN NoMatch
  ELSE UnitAfter[s, i, DigitRunEnd[s, i],
                 FirstAlt[s, SkipSpaces[s, DigitRunEnd[s, i] + 1],
                          <<"kg", "g", "ml", "l", "stück", "stuck">>]]

\* the second factor and the unit of pattern 2, the first factor being s[i..e1]
Pattern2Tail[s \in STRING, i \in Int, e1 \in Int, e2 \in Int] ==
  IF FirstAlt[s, e2 + 1, <<"g", "ml", "l">>] = "" THEN NoMatch
  ELSE [ok |-> TRUE,
        amount |-> ParseDigits[s, i, e1] * ParseDigits[s, e1 + 2, e2],
        unit |-> FirstAlt[s, e2 + 1, <<"g", "ml", "l">>]]

Pattern2Mid[s \in STRING, i \in Int, e1 \in Int] ==
  IF CharAt[s, e1 + 1] # "x" \/ ~IsDigit[CharAt[s, e1 + 2]] THEN NoMatch
  ELSE Pattern2Tail[s, i, e1, DigitRunEnd[s, e1 + 2]]

\* /(\d+)x(\d+)(g|ml|l)/i matched at start i
Pattern2At[s \in STRING, i \in Int] ==
  IF ~IsDigit[CharAt[s, i]] THEN NoMatch ELSE Pattern2Mid[s, i, DigitRunEnd[s, i]]

Pattern3Digits[s \in STRING, k \in Int] ==
  IF ~IsDigit[CharAt[s, k]] THEN NoMatch
  ELSE UnitAfter[s, k, DigitRunEnd[s, k],
                 FirstAlt[s, DigitRunEnd[s, k] + 1, <<"g", "ml", "l", "kg">>]]

\* /ca\.\s*(\d+)(g|ml|l|kg)/i matched at start i
Pattern3At[s \in STRING, i \in Int] ==
  IF ~StartsAt[s, i, "ca."] THEN NoMatch ELSE Pattern3Digits[s, SkipSpaces[s, i + 3]]

\* /(\d+(?:,\d+)?)\s+(g|ml|l|kg|stück|stuck)/i matched at start i
Pattern4At[s \in STRING, i \in Int] ==
  IF ~IsDigit[CharAt[s, i]] \/ ~IsSpace(CharAt[s, DigitRunEnd[s, i] + 1]) THEN NoMatch
  ELSE UnitAfter[s, i, DigitRunEnd[s, i],
                 FirstAlt[s, SkipSpaces[s, DigitRunEnd[s, i] + 1],
                          <<"g", "ml", "l", "kg", "stück", "stuck">>]]

\* pattern k of the constructor's list matched at start i
PatternAt[s \in STRING, k \in Int, i \in Int] ==
  IF k = 1 THEN Pattern1At[s, i]
  ELSE IF k = 2 THEN Pattern2At[s, i]
  ELSE IF k = 3 THEN Pattern3At[s, i]
  ELSE Pattern4At[s, i]

\* String.prototype.match: the match of pattern k at the leftmost start >= i
MatchFrom[s \in STRING, k \in Int, i \in Int] ==
  IF i > Len(s) THEN NoMatch
  ELSE IF PatternAt[s, k, i].ok THEN PatternAt[s, k, i]
  ELSE MatchFrom[s, k, i + 1]

normalizeUnit(unit) ==
  IF ToLowerCase[unit] \in {"stuck", "stueck", "piece", "pcs"} THEN "stück"
  ELSE ToLowerCase[unit]

Volume[m \in MatchSet] ==
  [tag |-> "volume", amount |-> m.amount, unit |-> normalizeUnit(m.unit)]

NumberOfPatterns == 4

\* the loop over this.patterns, from pattern k on: the first that matches wins
ParseFrom[cleanText \in STRING, k \in Int] ==
  IF k > NumberOfPatterns THEN Null
  ELSE IF MatchFrom[cleanText, k, 1].ok THEN Volume[MatchFrom[cleanText, k, 1]]
  ELSE ParseFrom[cleanText, k + 1]

\* text.toLowerCase() throws when the text is undefined
parseVolume(text) ==
  IF text = Undefined THEN Thrown ELSE ParseFrom[Trim[ToLowerCase[text]], 1]

Num(v) == [tag |-> "num", v |-> v]

convertToGrams(amount, unit) ==
  LET unitLower == ToLowerCase[unit]
  IN  IF unitLower = "g" THEN Num(amount)
      ELSE IF unitLower = "kg" THEN Num(JsMul[amount, 1000])
      ELSE IF unitLower = "ml" THEN Num(amount)
      ELSE IF unitLower = "l" THEN Num(JsMul[amount, 1000])
      ELSE Null

\* Math.round in place of Math.ceil
calculateUnitsNeededMutant(neededAmount, neededUnit, productAmount, productUnit) ==
  LET neededGrams  == convertToGrams(neededAmount, neededUnit)
      productGrams == convertToGrams(productAmount, productUnit)
  IN  IF neededGrams # Null /\ productGrams # Null
      THEN Num(JsCeilDiv[2 * neededGrams.v - productGrams.v + 1, 2 * productGrams.v])
      ELSE IF ToLowerCase[neededUnit] = "stück" /\ ToLowerCase[productUnit] = "stück"
      THEN Num(JsCeilDiv[neededAmount, productAmount])
      ELSE Null

calculateUnitsNeeded(neededAmount, neededUnit, productAmount, productUnit) ==
  LET neededGrams  == convertToGrams(neededAmount, neededUnit)
      productGrams == convertToGrams(productAmount, productUnit)
  IN  IF neededGrams # Null /\ productGrams # Null
      THEN Num(JsCeilDiv[neededGrams.v, productGrams.v])
      ELSE IF ToLowerCase[neededUnit] = "stück" /\ ToLowerCase[productUnit] = "stück"
      THEN Num(JsCeilDiv[neededAmount, productAmount])
      ELSE Null

----------------------------------------------------------------------------
(* Quantity resolution (src/src/lib/grocery-service.ts)                    *)

\* a JavaScript number n / d
Rat(n, d) == [num |-> n, den |-> d]

\* 1.0 as a score
ScoreUnit == 10 ^ 4

\* n / 100 as a score
Hundredths(n) == n * (ScoreUnit \div 100)

\* candidate.score * (percent / 100), kept in hundredths of the score's unit
ConfidenceOf(score, percent) == score * percent

ProductMatch(product, unitsNeeded, actualAmount, actualUnit, totalPrice, confidence, matchTier, how) ==
  [product |-> product, unitsNeeded |-> unitsNeeded, actualAmount |-> actualAmount,
   actualUnit |-> actualUnit, totalPrice |-> totalPrice, confidence |-> confidence,
   matchTier |-> matchTier, matchReasoning |-> how]

\* calculateQuantitySimple: no volume info, assume 1 unit needed
SimpleNoVolume(candidate) ==
  ProductMatch(candidate.product, 1, Rat(1, 1), "stück", candidate.product.price,
               ConfidenceOf(candidate.score, 100), candidate.tier, "deterministic")

SimpleDirectMutant(item, candidate, productVolume) ==
  LET unitsNeeded == JsMax[1, JsCeilDiv[item.amount, productVolume.amount]]
  IN  ProductMatch(candidate.product, unitsNeeded,
                   Rat(JsMul[unitsNeeded, productVolume.amount], 1), productVolume.unit,
                   candidate.product.price,
                   ConfidenceOf(candidate.score, 100), candidate.tier, "deterministic")

\* calculateQuantitySimple: direct unit match
SimpleDirect(item, candidate, productVolume) ==
  LET unitsNeeded == JsMax[1, JsCeilDiv[item.amount, productVolume.amount]]
  IN  ProductMatch(candidate.product, unitsNeeded,
                   Rat(JsMul[unitsNeeded, productVolume.amount], 1), productVolume.unit,
                   JsMul[unitsNeeded, candidate.product.price],
                   ConfidenceOf(candidate.score, 100), candidate.tier, "deterministic")

\* calculateQuantitySimple: simple unit conversions
SimpleConverted(item, candidate, productVolume) ==
  LET targetUnit  == item.unit
      productUnit == productVolume.unit
      convertedProductAmount ==
        IF productUnit = "kg" /\ targetUnit = "g" THEN productVolume.amount * 1000
        ELSE IF productUnit = "g" /\ targetUnit = "kg" THEN productVolume.amount
        ELSE IF productUnit = "l" /\ targetUnit = "ml" THEN productVolume.amount * 1000
        ELSE productVolume.amount
      convertedTargetAmount ==
        IF productUnit = "kg" /\ targetUnit = "g" THEN item.amount
        ELSE IF productUnit = "g" /\ targetUnit = "kg" THEN item.amount * 1000
        ELSE IF productUnit = "l" /\ targetUnit = "ml" THEN item.amount
        ELSE IF productUnit = "ml" /\ targetUnit = "l" THEN item.amount * 1000
        ELSE item.amount
      unitsNeeded == JsMax[1, JsCeilDiv[convertedTargetAmount, convertedProductAmount]]
      finalAmount == JsMul[unitsNeeded, convertedProductAmount]
      finalUnit   == IF productUnit = "kg" \/ targetUnit = "g" THEN "g"
                     ELSE IF productUnit = "l" \/ targetUnit = "ml" THEN "ml"
                     ELSE productUnit
  IN  ProductMatch(candidate.product, unitsNeeded, Rat(finalAmount, 1), finalUnit,
                   JsMul[unitsNeeded, candidate.product.price],
                   ConfidenceOf(candidate.score, 100), candidate.tier, "deterministic")

calculateQuantitySimple(item, candidate) ==
  LET productVolume == parseVolume(candidate.product.volume)
  IN  IF productVolume = Thrown THEN Null
      ELSE IF productVolume = Null THEN SimpleNoVolume(candidate)
      ELSE IF productVolume.amount = 0 THEN SimpleNoVolume(candidate)
      ELSE IF item.unit = productVolume.unit THEN SimpleDirect(item, candidate, productVolume)
      ELSE SimpleConverted(item, candidate, productVolume)

\* `${product.title} ${product.volume}`
TitleAndVolume(product) ==
  product.title \o " " \o (IF product.volume = Undefined THEN "undefined" ELSE product.volume)

\* calculateQuantityForProduct: the deterministic calculation
ForProductDeterministic(candidate, productVolume, unitsNeeded) ==
  LET totalPrice == JsMul[unitsNeeded, candidate.product.price]
      amount     == JsMul[unitsNeeded, productVolume.amount]
      readable   == productVolume.unit \in {"g", "ml"} /\ amount # JsNaN /\ amount >= 1000
  IN  ProductMatch(candidate.product, unitsNeeded,
                   IF readable THEN Rat(amount, 1000) ELSE Rat(amount, 1),
                   IF readable THEN (IF productVolume.unit = "g" THEN "kg" ELSE "l")
                   ELSE productVolume.unit,
                   totalPrice, ConfidenceOf(candidate.score, 100), candidate.tier,
                   "deterministic")

\* calculateQuantityForProduct: the answer of OpenAIClient.calculateQuantity
ForProductSmart(candidate, smartQuantity) ==
  ProductMatch(candidate.product, smartQuantity.unitsNeeded,
               Rat(smartQuantity.actualAmount, 1), smartQuantity.actualUnit,
               JsMul[smartQuantity.unitsNeeded, candidate.product.price],
               ConfidenceOf(candidate.score, 75), "ai_smart", "estimated")

\* smartQuantity: what the quantity-estimation collaborator answers, or Thrown
calculateQuantityForProduct(item, candidate, smartQuantity) ==
  LET productVolume == parseVolume(TitleAndVolume(candidate.product))
      unitsNeeded   == IF productVolume = Null THEN Null
                       ELSE calculateUnitsNeeded(item.amount, item.unit,
                                                 productVolume.amount, productVolume.unit)
  IN  IF unitsNeeded # Null
      THEN ForProductDeterministic(candidate, productVolume, unitsNeeded.v)
      ELSE IF smartQuantity = Thrown THEN Null
      ELSE ForProductSmart(candidate, smartQuantity)

----------------------------------------------------------------------------
(* The records of src/unnamed/part_005                                     *)

Product(category, title, price, volume) ==
  [category |-> category, title |-> title, price |-> price, volume |-> volume]

ShoppingItem(item, amount, unit, originalText, attributes, alternatives, itemType) ==
  [item |-> item, amount |-> amount, unit |-> unit, originalText |-> originalText,
   attributes |-> attributes, alternatives |-> alternatives, itemType |-> itemType]

SearchTiers(tier1, tier2, tier3) == [tier1 |-> tier1, tier2 |-> tier2, tier3 |-> tier3]

Candidate(product, score, tier) == [product |-> product, score |-> score, tier |-> tier]


\* the values of the records above
ProductSet == [category : STRING, title : STRING, price : Int, volume : STRING]

ProductSeqs == Seq(ProductSet)

ItemSet == [item : STRING, amount : Int, unit : STRING, originalText : STRING, attributes : Texts, alternatives : Texts, itemType : STRING]

CandidateSet == [product : ProductSet, score : Int, tier : STRING]

CandidateSeqs == Seq(CandidateSet)

----------------------------------------------------------------------------
(* Array helpers: includes, slice, [...new Set(a)], a stable sort          *)

SeqToSet(q) == {q[i] : i \in DOMAIN q}

SeqIncludes(q, x) == \E i \in DOMAIN q : q[i] = x

\* a.slice(0, n)
Slice[q \in CandidateSeqs, n \in Int] == SubSeq(q, 1, Min[n, Len(q)])

\* a.slice(0, n) on a list of texts
SliceTexts[q \in Texts, n \in Int] == SubSeq(q, 1, Min[n, Len(q)])

UniqueFrom[q \in Texts, i \in Int] ==
  IF i > Len(q) THEN <<>>
  ELSE (IF \E j \in 1..(i - 1) : q[j] = q[i] THEN <<>> ELSE <<q[i]>>) \o UniqueFrom[q, i + 1]

\* [...new Set(a)]: the first occurrence of each element, in order
Unique[q \in Texts] == UniqueFrom[q, 1]

\* a.sort((a, b) => b.score - a.score): descending by score, stable.  The
\* entry at index i goes behind the entries of a higher score and behind the
\* entries of its own score that stood before it.
SortByScore[q \in CandidateSeqs] ==
  LET Before[i \in 1..Len(q)] ==
        Cardinality({j \in 1..Len(q) :
                       \/ q[j].score > q[i].score
                       \/ q[j].score = q[i].score /\ j < i})
  IN  [k \in 1..Len(q) |-> q[CHOOSE i \in 1..Len(q) : Before[i] = k - 1]]

----------------------------------------------------------------------------
(* GroceryService: keyword search (src/src/lib/grocery-service.ts)         *)

\* basicKeywordScore: what one search term adds
TermScore[titleLower \in STRING, titleWords \in SUBSET STRING, termLower \in STRING] ==
  IF termLower \in titleWords THEN Hundredths(200)
  ELSE IF \E word \in titleWords : Len(word) > Len(termLower) /\ Includes[word, termLower]
       THEN Hundredths(150)
  ELSE IF Includes[titleLower, termLower] THEN Hundredths(100)
  ELSE 0

KeywordScoreFrom[titleLower \in STRING, titleWords \in SUBSET STRING, searchTerms \in Texts, i \in Int] ==
  IF i > Len(searchTerms) THEN 0
  ELSE TermScore[titleLower, titleWords, ToLowerCase[searchTerms[i]]]
         + KeywordScoreFrom[titleLower, titleWords, searchTerms, i + 1]

TitleScore[titleLower \in STRING, searchTerms \in Texts] ==
  KeywordScoreFrom[titleLower, WordSet[Split[titleLower, " "]], searchTerms, 1]

basicKeywordScore(product, searchTerms) == TitleScore[ToLowerCase[product.title], searchTerms]

\* the candidate searchProductsWithCategories makes of a product, if any
SearchHit[product \in ProductSet, score \in Int, tier \in STRING, threshold \in Int] ==
  IF score >= threshold THEN <<Candidate(product, score, tier)>> ELSE <<>>

SearchProducts[catalog \in ProductSeqs, searchTerms \in Texts, targetCategories \in Texts, tier \in STRING, threshold \in Int] ==
  LET From[i \in 1..(Len(catalog) + 1)] ==
        IF i > Len(catalog) THEN <<>>
        ELSE IF ~SeqIncludes(targetCategories, catalog[i].category) THEN From[i + 1]
        ELSE SearchHit[catalog[i], basicKeywordScore(catalog[i], searchTerms), tier, threshold]
               \o From[i + 1]
  IN  From[1]

\* catalog stands for this.products
searchProductsWithCategories(catalog, searchTerms, targetCategories, tier, threshold) ==
  SearchProducts[catalog, searchTerms, targetCategories, tier, threshold]

\* the line searchProductsWithCategories logs for a tier search
TierSearch(tier, candidates) == [tier |-> tier, matches |-> Len(candidates)]

VolumeSet == [tag : {"volume"}, amount : Int, unit : STRING]

NumSet == [tag : {"num"}, v : Int]

\* a gram count of 0 is falsy in neededGrams && productGrams
SizeBonus[neededGrams \in NumSet \cup {Null}, productGrams \in NumSet \cup {Null}] ==
  IF neededGrams = Null \/ productGrams = Null THEN 0
  ELSE IF neededGrams.v = 0 \/ productGrams.v = 0 THEN 0
  ELSE IF 2 * neededGrams.v >= productGrams.v /\ neededGrams.v <= 2 * productGrams.v
       THEN Hundredths(50)
  ELSE IF neededGrams.v > 10 * productGrams.v THEN 0 - Hundredths(100)
  ELSE 0

VolumeSizeBonus[productVolume \in VolumeSet \cup {Null}, amount \in Int, unit \in STRING] ==
  IF productVolume = Null THEN 0
  ELSE SizeBonus[convertToGrams(amount, unit),
                 convertToGrams(productVolume.amount, productVolume.unit)]

calculateSizeBonus(product, item) ==
  VolumeSizeBonus[parseVolume(TitleAndVolume(product)), item.amount, item.unit]

\* calculateSmartScore: tierWeights[tier] || 1.0, in tenths
TierWeight(tier) ==
  IF tier = "tier1" THEN 30 ELSE IF tier = "tier2" THEN 15 ELSE IF tier = "tier3" THEN 8 ELSE 10

\* calculateSmartScore: the bonus of one attribute of the item
AttributeBonus[attrLower \in STRING, titleLower \in STRING] ==
  IF attrLower \in {"organic", "bio"} /\ Includes[titleLower, "bio"] THEN Hundredths(100)
  ELSE IF attrLower \in {"whole_wheat", "vollkorn"} /\ Includes[titleLower, "vollkorn"]
       THEN Hundredths(100)
  ELSE IF attrLower \in {"fresh", "frisch"}
          /\ (Includes[titleLower, "frisch"] \/ Includes[titleLower, "fresh"])
       THEN Hundredths(50)
  ELSE IF attrLower \in {"firm", "fest"} /\ Includes[titleLower, "fest"] THEN Hundredths(100)
  ELSE 0

AttributeBonusFrom[attributes \in Texts, titleLower \in STRING, i \in Int] ==
  IF i > Len(attributes) THEN 0
  ELSE AttributeBonus[ToLowerCase[attributes[i]], titleLower]
         + AttributeBonusFrom[attributes, titleLower, i + 1]

calculateSmartScore(product, searchTiers, item, baseScore, tier) ==
  LET weightedScore  == (baseScore * TierWeight(tier)) \div 10
      attributeBonus == AttributeBonusFrom[item.attributes, ToLowerCase[product.title], 1]
      sizeBonus      == calculateSizeBonus(product, item)
  IN  weightedScore + attributeBonus + sizeBonus

SearchTiersSet == [tier1 : Texts, tier2 : Texts, tier3 : Texts]

\* allCandidates.map(candidate => ({...candidate, score: calculateSmartScore(...)}))
ScoreCandidates[allCandidates \in CandidateSeqs, searchTiers \in SearchTiersSet, item \in ItemSet] ==
  [k \in 1..Len(allCandidates) |->
     Candidate(allCandidates[k].product,
               calculateSmartScore(allCandidates[k].product, searchTiers, item,
                                   allCandidates[k].score, allCandidates[k].tier),
               allCandidates[k].tier)]

\* what OpenAIClient.qualityFilter answers
QualityFilterResult(indexes) ==
  [selectedCandidates |-> [k \in 1..Len(indexes) |-> [index |-> indexes[k]]]]

SelectionSet == [index : Int]

SelectFrom[candidates \in CandidateSeqs, selectedCandidates \in Seq(SelectionSet), k \in Int] ==
  IF k > Len(selectedCandidates) THEN <<>>
  ELSE (IF selectedCandidates[k].index >= 0 /\ selectedCandidates[k].index < Len(candidates)
        THEN <<candidates[selectedCandidates[k].index + 1]>>
        ELSE <<>>) \o SelectFrom[candidates, selectedCandidates, k + 1]

\* applyQualityFilter with the catch block of the orchestrators: return []
applyQualityFilterMutant(candidates, qualityResult) ==
  IF qualityResult = Thrown THEN <<>>
  ELSE SelectFrom[candidates, qualityResult.selectedCandidates, 1]

\* qualityResult: what OpenAIClient.qualityFilter answers, or Thrown
applyQualityFilter(candidates, qualityResult) ==
  IF qualityResult = Thrown THEN candidates
  ELSE SelectFrom[candidates, qualityResult.selectedCandidates, 1]

\* calculateTitleSimilarity: intersection.size / union.size, as a fraction
WordSimilarity[words1 \in SUBSET STRING, words2 \in SUBSET STRING] ==
  Rat(Cardinality(words1 \cap words2), Cardinality(words1 \cup words2))

calculateTitleSimilarity(title1, title2) ==
  WordSimilarity[WordSet[Split[title1, " "]], WordSet[Split[title2, " "]]]

\* calculateTitleSimilarity(...) > 0.8
TitlesSimilar[title1 \in STRING, title2 \in STRING] ==
  10 * calculateTitleSimilarity(title1, title2).num
    > 8 * calculateTitleSimilarity(title1, title2).den

NormalizedTitle[title \in STRING] == Trim[CollapseSpaces[ToLowerCase[title]]]

\* seenTitles.has(normalizedTitle), or a seen title is similar
TitleSeen[seenTitles \in SUBSET STRING, normalizedTitle \in STRING] ==
  \/ normalizedTitle \in seenTitles
  \/ \E seenTitle \in seenTitles : TitlesSimilar[normalizedTitle, seenTitle]

RemoveDuplicatesFrom[candidates \in CandidateSeqs, k \in Int, seenTitles \in SUBSET STRING] ==
  IF k > Len(candidates) THEN <<>>
  ELSE IF TitleSeen[seenTitles, NormalizedTitle[candidates[k].product.title]]
       THEN RemoveDuplicatesFrom[candidates, k + 1, seenTitles]
       ELSE <<candidates[k]>>
              \o RemoveDuplicatesFrom[candidates, k + 1,
                   seenTitles \cup {NormalizedTitle[candidates[k].product.title]}]

removeDuplicateSimilarProducts(candidates) == RemoveDuplicatesFrom[candidates, 1, {}]

----------------------------------------------------------------------------
(* GroceryService: categories and search terms without the collaborators   *)

\* determineCategoriesNoAI: categoryMap, as Object.entries lists it
categoryMapNoAI ==
  << <<"avocado", <<"Obst & Gemüse">>>>,
     <<"tomate", <<"Obst & Gemüse">>>>,
     <<"tomates", <<"Obst & Gemüse">>>>,
     <<"tomato", <<"Obst & Gemüse">>>>,
     <<"tomatoes", <<"Obst & Gemüse">>>>,
     <<"brokkoli", <<"Obst & Gemüse">>>>,
     <<"broccoli", <<"Obst & Gemüse">>>>,
     <<"salat", <<"Obst & Gemüse">>>>,
     <<"salad", <<"Obst & Gemüse">>>>,
     <<"gurke", <<"Obst & Gemüse">>>>,
     <<"cucumber", <<"Obst & Gemüse">>>>,
     <<"paprika", <<"Obst & Gemüse">>>>,
     <<"pepper", <<"Obst & Gemüse">>>>,
     <<"zwiebel", <<"Obst & Gemüse">>>>,
     <<"onion", <<"Obst & Gemüse">>>>,
     <<"karotte", <<"Obst & Gemüse">>>>,
     <<"carrot", <<"Obst & Gemüse">>>>,
     <<"kartoffel", <<"Obst & Gemüse">>>>,
     <<"potato", <<"Obst & Gemüse">>>>,
     <<"apfel", <<"Obst & Gemüse">>>>,
     <<"apple", <<"Obst & Gemüse">>>>,
     <<"banane", <<"Obst & Gemüse">>>>,
     <<"banana", <<"Obst & Gemüse">>>>,
     <<"nudeln", <<"Kochen & Backen", "Brot, Cerealien & Aufstriche">>>>,
     <<"pasta", <<"Kochen & Backen", "Brot, Cerealien & Aufstriche">>>>,
     <<"spaghetti", <<"Kochen & Backen", "Brot, Cerealien & Aufstriche">>>>,
     <<"vollkorn", <<"Kochen & Backen", "Brot, Cerealien & Aufstriche">>>>,
     <<"wheat", <<"Kochen & Backen", "Brot, Cerealien & Aufstriche">>>>,
     <<"reis", <<"Kochen & Backen">>>>,
     <<"rice", <<"Kochen & Backen">>>>,
     <<"mehl", <<"Kochen & Backen">>>>,
     <<"flour", <<"Kochen & Backen">>>>,
     <<"tofu", <<"Fleisch & Fisch">>>>,
     <<"hähnchen", <<"Fleisch & Fisch">>>>,
     <<"chicken", <<"Fleisch & Fisch">>>>,
     <<"fleisch", <<"Fleisch & Fisch">>>>,
     <<"meat", <<"Fleisch & Fisch">>>>,
     <<"fisch", <<"Fleisch & Fisch">>>>,
     <<"fish", <<"Fleisch & Fisch">>>>,
     <<"chorizo", <<"Fleisch & Fisch">>>>,
     <<"soyrizo", <<"Fleisch & Fisch">>>>,
     <<"milch", <<"Käse, Eier & Molkerei">>>>,
     <<"milk", <<"Käse, Eier & Molkerei">>>>,
     <<"käse", <<"Käse, Eier & Molkerei">>>>,
     <<"cheese", <<"Käse, Eier & Molkerei">>>>,
     <<"cheddar", <<"Käse, Eier & Molkerei">>>>,
     <<"joghurt", <<"Käse, Eier & Molkerei">>>>,
     <<"yogurt", <<"Käse, Eier & Molkerei">>>>,
     <<"butter", <<"Käse, Eier & Molkerei", "Brot, Cerealien & Aufstriche">>>>,
     <<"eier", <<"Käse, Eier & Molkerei">>>>,
     <<"eggs", <<"Käse, Eier & Molkerei">>>>,
     <<"peanut", <<"Brot, Cerealien & Aufstriche">>>>,
     <<"erdnuss", <<"Brot, Cerealien & Aufstriche">>>>,
     <<"öl", <<"Öle, Soßen & Gewürze">>>>,
     <<"oil", <<"Öle, Soßen & Gewürze">>>>,
     <<"green onion", <<"Obst & Gemüse">>>>,
     <<"spring onion", <<"Obst & Gemüse">>>>,
     <<"scallion", <<"Obst & Gemüse">>>>,
     <<"frühlingszwiebel", <<"Obst & Gemüse">>>>,
     <<"lauchzwiebel", <<"Obst & Gemüse">>>> >>

\* determineCategoriesSimple: categoryMap, as Object.entries lists it
categoryMapSimple ==
  << <<"avocado", <<"Obst & Gemüse">>>>,
     <<"tomate", <<"Obst & Gemüse">>>>,
     <<"tomates", <<"Obst & Gemüse">>>>,
     <<"tomato", <<"Obst & Gemüse">>>>,
     <<"tomatoes", <<"Obst & Gemüse">>>>,
     <<"brokkoli", <<"Obst & Gemüse">>>>,
     <<"broccoli", <<"Obst & Gemüse">>>>,
     <<"salat", <<"Obst & Gemüse">>>>,
     <<"salad", <<"Obst & Gemüse">>>>,
     <<"gurke", <<"Obst & Gemüse">>>>,
     <<"cucumber", <<"Obst & Gemüse">>>>,
     <<"paprika", <<"Obst & Gemüse">>>>,
     <<"pepper", <<"Obst & Gemüse">>>>,
     <<"zwiebel", <<"Obst & Gemüse">>>>,
     <<"onion", <<"Obst & Gemüse">>>>,
     <<"karotte", <<"Obst & Gemüse">>>>,
     <<"carrot", <<"Obst & Gemüse">>>>,
     <<"kartoffel", <<"Obst & Gemüse">>>>,
     <<"potato", <<"Obst & Gemüse">>>>,
     <<"apfel", <<"Obst & Gemüse">>>>,
     <<"apple", <<"Obst & Gemüse">>>>,
     <<"banane", <<"Obst & Gemüse">>>>,
     <<"banana", <<"Obst & Gemüse">>>>,
     <<"nudeln", <<"Kochen & Backen", "Brot, Cerealien & Aufstriche">>>>,
     <<"pasta", <<"Kochen & Backen", "Brot, Cerealien & Aufstriche">>>>,
     <<"spaghetti", <<"Kochen & Backen", "Brot, Cerealien & Aufstriche">>>>,
     <<"vollkorn", <<"Kochen & Backen", "Brot, Cerealien & Aufstriche">>>>,
     <<"wheat", <<"Kochen & Backen", "Brot, Cerealien & Aufstriche">>>>,
     <<"reis", <<"Kochen & Backen">>>>,
     <<"rice", <<"Kochen & Backen">>>>,
     <<"mehl", <<"Kochen & Backen">>>>,
     <<"flour", <<"Kochen & Backen">>>>,
     <<"tofu", <<"Fleisch & Fisch">>>>,
     <<"hähnchen", <<"Fleisch & Fisch">>>>,
     <<"chicken", <<"Fleisch & Fisch">>>>,
     <<"fleisch", <<"Fleisch & Fisch">>>>,
     <<"meat", <<"Fleisch & Fisch">>>>,
     <<"fisch", <<"Fleisch & Fisch">>>>,
     <<"fish", <<"Fleisch & Fisch">>>>,
     <<"chorizo", <<"Fleisch & Fisch">>>>,
     <<"soyrizo", <<"Fleisch & Fisch">>>>,
     <<"milch", <<"Käse, Eier & Molkerei">>>>,
     <<"milk", <<"Käse, Eier & Molkerei">>>>,
     <<"käse", <<"Käse, Eier & Molkerei">>>>,
     <<"cheese", <<"Käse, Eier & Molkerei">>>>,
     <<"cheddar", <<"Käse, Eier & Molkerei">>>>,
     <<"joghurt", <<"Käse, Eier & Molkerei">>>>,
     <<"yogurt", <<"Käse, Eier & Molkerei">>>>,
     <<"butter", <<"Käse, Eier & Molkerei", "Brot, Cerealien & Aufstriche">>>>,
     <<"eier", <<"Käse, Eier & Molkerei">>>>,
     <<"eggs", <<"Käse, Eier & Molkerei">>>>,
     <<"peanut", <<"Brot, Cerealien & Aufstriche">>>>,
     <<"erdnuss", <<"Brot, Cerealien & Aufstriche">>>>,
     <<"öl", <<"Öle, Soßen & Gewürze">>>>,
     <<"oil", <<"Öle, Soßen & Gewürze">>>>,
     <<"green", <<"Obst & Gemüse">>>>,
     <<"green onion", <<"Obst & Gemüse">>>>,
     <<"spring onion", <<"Obst & Gemüse">>>>,
     <<"scallion", <<"Obst & Gemüse">>>>,
     <<"frühlingszwiebel", <<"Obst & Gemüse">>>>,
     <<"lauchzwiebel", <<"Obst & Gemüse">>>> >>

CategoryMaps == Seq(STRING \X Texts)

\* the first entry of categoryMap whose key the item or the original text holds
CategoryMapLookup[categoryMap \in CategoryMaps, itemLower \in STRING, originalLower \in STRING] ==
  LET From[k \in 1..(Len(categoryMap) + 1)] ==
        IF k > Len(categoryMap) THEN Null
        ELSE IF \/ Includes[itemLower, categoryMap[k][1]]
                \/ Includes[originalLower, categoryMap[k][1]]
             THEN [tag |-> "categories", categories |-> categoryMap[k][2]]
             ELSE From[k + 1]
  IN  From[1]

\* typeCategories[item.itemType], <<>> for a type the table lacks
typeCategories(itemType) ==
  IF itemType = "fresh_produce" THEN <<"Obst & Gemüse">>
  ELSE IF itemType = "dairy" THEN <<"Käse, Eier & Molkerei">>
  ELSE IF itemType = "meat" THEN <<"Fleisch & Fisch">>
  ELSE IF itemType = "dry_goods" THEN <<"Kochen & Backen", "Brot, Cerealien & Aufstriche">>
  ELSE IF itemType = "herbs_spices" THEN <<"Öle, Soßen & Gewürze">>
  ELSE IF itemType = "canned" THEN <<"Fertiggerichte & Konserven">>
  ELSE IF itemType = "condiments" THEN <<"Öle, Soßen & Gewürze">>
  ELSE IF itemType = "grains" THEN <<"Kochen & Backen", "Brot, Cerealien & Aufstriche">>
  ELSE IF itemType = "spreads" THEN <<"Brot, Cerealien & Aufstriche">>
  ELSE <<>>

\* the keyword table, then the item type, then the default pair
CategoriesByTable[categoryMap \in CategoryMaps, item \in ItemSet] ==
  LET mapped == CategoryMapLookup[categoryMap, ToLowerCase[item.item],
                                  ToLowerCase[item.originalText]]
  IN  IF mapped # Null THEN mapped.categories
      ELSE IF typeCategories(item.itemType) # <<>> THEN typeCategories(item.itemType)
      ELSE <<"Kochen & Backen", "Obst & Gemüse">>

determineCategoriesNoAIMutant(item) ==
  IF typeCategories(item.itemType) # <<>> THEN typeCategories(item.itemType)
  ELSE CategoriesByTable[categoryMapNoAI, item]

determineCategoriesNoAI(item) == CategoriesByTable[categoryMapNoAI, item]

\* categoryResult: what OpenAIClient.determineCategories answers, or Thrown
determineCategoriesSimple(item, categoryResult) ==
  IF categoryResult # Thrown /\ Len(categoryResult.categories) > 0
  THEN categoryResult.categories
  ELSE CategoriesByTable[categoryMapSimple, item]

\* word.replace('ö', 'oe').replace('ä', 'ae').replace('ü', 'ue')
ReplaceUmlauts[word \in STRING] ==
  ReplaceFirst[ReplaceFirst[ReplaceFirst[word, "ö", "oe"], "ä", "ae"], "ü", "ue"]

\* words.filter(word => word.length > n), from index i on
LongerThan[words \in Texts, n \in Int, i \in Int] ==
  IF i > Len(words) THEN <<>>
  ELSE (IF Len(words[i]) > n THEN <<words[i]>> ELSE <<>>) \o LongerThan[words, n, i + 1]

\* words.flatMap(word => word.split(' ')), from index i on
SplitAll[words \in Texts, i \in Int] ==
  IF i > Len(words) THEN <<>> ELSE Split[words[i], " "] \o SplitAll[words, i + 1]

\* words.slice().reverse()
Reverse[words \in Texts] == [k \in 1..Len(words) |-> words[Len(words) + 1 - k]]

\* generateSimpleSearchTiers: the terms for green onions
GreenOnionTiers ==
  SearchTiers(<<"lauchzwiebeln", "frühlingszwiebeln", "green onion", "spring onion",
                "scallion", "lauch zwiebeln">>,
              <<"zwiebeln", "lauch", "onion", "zwiebel">>,
              <<"schnittlauch", "porree">>)

\* generateSimpleSearchTiers: the standard fallback logic, on baseItem, attributes,
\* baseWords, attributeWords and item.alternatives
StandardTerms[baseItem \in STRING, attributes \in Texts, baseWords \in Texts, attributeWords \in Texts, alternatives \in Texts] ==
  LET tier1 == <<baseItem>>
                 \o baseWords
                 \o (IF Len(baseWords) > 1 THEN <<JoinWith[Reverse[baseWords], " "]>> ELSE <<>>)
                 \o [k \in 1..Len(attributes) |-> attributes[k] \o " " \o baseItem]
                 \o [k \in 1..Len(attributes) |-> baseItem \o " " \o attributes[k]]
                 \o attributeWords
      tier2 == <<ReplaceUmlauts[baseItem]>>
                 \o [k \in 1..Len(baseWords) |-> ReplaceUmlauts[baseWords[k]]]
                 \o LongerThan[baseWords, 3, 1]
      tier3 == SliceTexts[alternatives, 3]
  IN  SearchTiers(tier1, tier2, tier3)

LowerAll[words \in Texts] == [k \in 1..Len(words) |-> ToLowerCase[words[k]]]

StandardTiers[item \in ItemSet] ==
  StandardTerms[ToLowerCase[item.item], LowerAll[item.attributes],
                LongerThan[Split[ToLowerCase[item.item], " "], 0, 1],
                LongerThan[SplitAll[LowerAll[item.attributes], 1], 0, 1],
                item.alternatives]

\* the tiers before duplicates are removed and the sizes limited
SimpleTiers[item \in ItemSet, originalText \in STRING] ==
  IF \/ Includes[originalText, "green onion"]
     \/ Includes[originalText, "spring onion"]
     \/ Includes[originalText, "scallion"]
  THEN GreenOnionTiers
  ELSE StandardTiers[item]

LimitTiers[tiers \in SearchTiersSet] ==
  SearchTiers(SliceTexts[Unique[tiers.tier1], 8],
              SliceTexts[Unique[tiers.tier2], 6],
              SliceTexts[Unique[tiers.tier3], 4])

generateSimpleSearchTiers(item) == LimitTiers[SimpleTiers[item, ToLowerCase[item.originalText]]]

\* searchTiersResult: what OpenAIClient.generateSearchTiers answers, or Thrown
generateSearchTiers(item, searchTiersResult) ==
  IF searchTiersResult # Thrown THEN searchTiersResult ELSE generateSimpleSearchTiers(item)

----------------------------------------------------------------------------
(* GroceryService: the tiered orchestrators.  Each yields the candidates   *)
(* it returns and the tier searches it ran, in the order it ran them.       *)

Found(candidates, searches) == [candidates |-> candidates, searches |-> searches]

TierSearchSet == [tier : STRING, matches : Int]

FoundSet == [candidates : CandidateSeqs, searches : Seq(TierSearchSet)]

QualityAnswerSet == [selectedCandidates : Seq(SelectionSet)] \cup {Thrown}

\* the catch block of an orchestrator: return []
SearchFailed == Found(<<>>, <<>>)

\* allCandidates.push(...tierCandidates) after the search of a tier
Pushed[found \in FoundSet, tier \in STRING, tierCandidates \in CandidateSeqs] ==
  Found(found.candidates \o tierCandidates,
        Append(found.searches, TierSearch(tier, tierCandidates)))

\* Tier 1 is always searched
Tier1Searched[catalog \in ProductSeqs, targetCategories \in Texts, searchTiers \in SearchTiersSet] ==
  Pushed[SearchFailed, "tier1",
         searchProductsWithCategories(catalog, searchTiers.tier1, targetCategories,
                                      "tier1", Hundredths(80))]

\* if (allCandidates.length < limit) { search tier 2 }
Tier2IfBelow[limit \in Int, found \in FoundSet, catalog \in ProductSeqs, targetCategories \in Texts, searchTiers \in SearchTiersSet] ==
  IF Len(found.candidates) < limit
  THEN Pushed[found, "tier2",
              searchProductsWithCategories(catalog, searchTiers.tier2, targetCategories,
                                           "tier2", Hundredths(50))]
  ELSE found

\* if (allCandidates.length < limit) { search tier 3 }
Tier3IfBelow[limit \in Int, found \in FoundSet, catalog \in ProductSeqs, targetCategories \in Texts, searchTiers \in SearchTiersSet] ==
  IF Len(found.candidates) < limit
  THEN Pushed[found, "tier3",
              searchProductsWithCategories(catalog, searchTiers.tier3, targetCategories,
                                           "tier3", Hundredths(30))]
  ELSE found

\* calculate smart scores and sort
Scored[found \in FoundSet, searchTiers \in SearchTiersSet, item \in ItemSet] ==
  Found(SortByScore[ScoreCandidates[found.candidates, searchTiers, item]], found.searches)

\* findMatchingProducts, step 5: the quality filter for more than 12 candidates
QualityFiltered[found \in FoundSet, qualityResult \in QualityAnswerSet] ==
  IF Len(found.candidates) > 12
  THEN Found(applyQualityFilter(Slice[found.candidates, 20], qualityResult), found.searches)
  ELSE found

\* removeDuplicateSimilarProducts(...).slice(0, limit)
Returned[found \in FoundSet, limit \in Int] ==
  Found(Slice[removeDuplicateSimilarProducts(found.candidates), limit], found.searches)

\* findMatchingProducts, steps 3 to 5, once both collaborators have answered
MultiTierSearch(catalog, item, targetCategories, searchTiers, qualityResult) ==
  Returned[
    QualityFiltered[
      Scored[
        Tier3IfBelow[3,
          Tier2IfBelow[5, Tier1Searched[catalog, targetCategories, searchTiers],
                       catalog, targetCategories, searchTiers],
          catalog, targetCategories, searchTiers],
        searchTiers, item],
      qualityResult],
    8]

\* categoryResult, searchTiersResult, qualityResult: what OpenAIClient's
\* determineCategories, generateSearchTiers and qualityFilter answer, or Thrown
findMatchingProducts(catalog, item, categoryResult, searchTiersResult, qualityResult) ==
  IF categoryResult = Thrown THEN SearchFailed
  ELSE IF searchTiersResult = Thrown THEN SearchFailed
  ELSE MultiTierSearch(catalog, item, categoryResult.categories, searchTiersResult,
                       qualityResult)

\* the ultra-fast variant with the tier 2 threshold of the other variants
UltraFastSearchMutant(catalog, item, targetCategories, searchTiers) ==
  Returned[
    Scored[
      Tier2IfBelow[5, Tier1Searched[catalog, targetCategories, searchTiers],
                   catalog, targetCategories, searchTiers],
      searchTiers, item],
    5]

\* findMatchingProductsUltraFast, once the categories and the terms are known
UltraFastSearch(catalog, item, targetCategories, searchTiers) ==
  Returned[
    Scored[
      Tier2IfBelow[3, Tier1Searched[catalog, targetCategories, searchTiers],
                   catalog, targetCategories, searchTiers],
      searchTiers, item],
    5]

findMatchingProductsUltraFast(catalog, item) ==
  UltraFastSearch(catalog, item, determineCategoriesNoAI(item), generateSimpleSearchTiers(item))

\* findMatchingProductsFast, once the categories and the terms are known
FastSearch(catalog, item, targetCategories, searchTiers) ==
  Returned[
    Scored[
      Tier2IfBelow[5, Tier1Searched[catalog, targetCategories, searchTiers],
                   catalog, targetCategories, searchTiers],
      searchTiers, item],
    8]

findMatchingProductsFast(catalog, item, categoryResult, searchTiersResult) ==
  FastSearch(catalog, item, determineCategoriesSimple(item, categoryResult),
             generateSearchTiers(item, searchTiersResult))

----------------------------------------------------------------------------
(* AdvancedSearchEngine (src/unnamed/part_004): texts and queries          *)

\* the characters the regular expression class \w holds
WordChars == "abcdefghijklmnopqrstuvwxyzABCDEFGHIJKLMNOPQRSTUVWXYZ0123456789_"

WordCharSet == {SubSeq(WordChars, i, i) : i \in 1..Len(WordChars)}

\* the last index of the run of \w characters that starts at i
WordRunEnd[s \in STRING, i \in Int] ==
  IF CharAt[s, i + 1] \in WordCharSet THEN WordRunEnd[s, i + 1] ELSE i

\* .replace(/[^\w\s]/g, ' ').split(/\s+/).filter(token => token.length > 1):
\* the runs of \w characters that are longer than one character
TokenizeFrom[s \in STRING, i \in Int] ==
  IF i > Len(s) THEN <<>>
  ELSE IF CharAt[s, i] \notin WordCharSet THEN TokenizeFrom[s, i + 1]
  ELSE IF WordRunEnd[s, i] = i THEN TokenizeFrom[s, i + 1]
  ELSE <<SubSeq(s, i, WordRunEnd[s, i])>> \o TokenizeFrom[s, WordRunEnd[s, i] + 1]

tokenize(text) == TokenizeFrom[ToLowerCase[text], 1]

getProductText(product) ==
  product.title \o " " \o product.category \o " "
    \o (IF product.volume = Undefined THEN "undefined" ELSE product.volume)

\* normalize('NFD') followed by the removal of the combining marks
StripMarks[c \in STRING] ==
  IF c = "ä" THEN "a" ELSE IF c = "ö" THEN "o" ELSE IF c = "ü" THEN "u" ELSE c

\* .replace(/ä/g, 'ae').replace(/ö/g, 'oe').replace(/ü/g, 'ue').replace(/ß/g, 'ss')
GermanChar[c \in STRING] ==
  IF c = "ä" THEN "ae" ELSE IF c = "ö" THEN "oe" ELSE IF c = "ü" THEN "ue"
  ELSE IF c = "ß" THEN "ss" ELSE c

GermanCharsFrom[s \in STRING, i \in Int] ==
  IF i > Len(s) THEN ""
  ELSE GermanChar[StripMarks[SubSeq(s, i, i)]] \o GermanCharsFrom[s, i + 1]

\* s.replace(/from/g, to) for a literal, non-empty from
ReplaceAllFrom[s \in STRING, from \in STRING, to \in STRING, i \in Int] ==
  IF i > Len(s) THEN ""
  ELSE IF StartsAt[s, i, from] THEN to \o ReplaceAllFrom[s, from, to, i + Len(from)]
  ELSE SubSeq(s, i, i) \o ReplaceAllFrom[s, from, to, i + 1]

\* .replace(/[^\w\s-]/g, ' ')
PunctuationFrom[s \in STRING, i \in Int] ==
  IF i > Len(s) THEN ""
  ELSE (IF \/ SubSeq(s, i, i) \in WordCharSet
           \/ IsSpace(SubSeq(s, i, i))
           \/ SubSeq(s, i, i) = "-"
        THEN SubSeq(s, i, i) ELSE " ") \o PunctuationFrom[s, i + 1]

preprocessQuery(query) ==
  Trim[CollapseSpaces[PunctuationFrom[
    ReplaceAllFrom[
      ReplaceAllFrom[
        ReplaceAllFrom[GermanCharsFrom[ToLowerCase[query], 1], "ae", "ä", 1],
        "oe", "ö", 1],
      "ue", "ü", 1],
    1]]]

\* initializeSynonyms: synonymMappings, as Object.entries lists it
synonymMappings ==
  << <<"tomate", <<"tomato", "tomates">>>>,
     <<"tomato", <<"tomate", "tomates">>>>,
     <<"brokkoli", <<"broccoli">>>>,
     <<"broccoli", <<"brokkoli">>>>,
     <<"nudeln", <<"pasta", "spaghetti", "noodles">>>>,
     <<"pasta", <<"nudeln", "spaghetti", "noodles">>>>,
     <<"milch", <<"milk">>>>,
     <<"milk", <<"milch">>>>,
     <<"käse", <<"cheese">>>>,
     <<"cheese", <<"käse">>>>,
     <<"bio", <<"organic", "biologisch">>>>,
     <<"organic", <<"bio", "biologisch">>>>,
     <<"vollkorn", <<"wholemeal", "whole grain", "whole wheat">>>>,
     <<"wholemeal", <<"vollkorn", "whole grain">>>>,
     <<"zwiebel", <<"onion", "zwiebeln">>>>,
     <<"onion", <<"zwiebel", "zwiebeln">>>>,
     <<"hähnchen", <<"chicken", "huhn">>>>,
     <<"chicken", <<"hähnchen", "huhn">>>> >>

\* this.synonyms.get(term) || []
SynonymsFor[term \in STRING] ==
  LET From[k \in 1..(Len(synonymMappings) + 1)] ==
        IF k > Len(synonymMappings) THEN <<>>
        ELSE IF synonymMappings[k][1] = term THEN synonymMappings[k][2]
        ELSE From[k + 1]
  IN  From[1]

\* if (!expanded.includes(q)) expanded.push(q)
PushNew[expanded \in Texts, q \in STRING] ==
  IF SeqIncludes(expanded, q) THEN expanded ELSE Append(expanded, q)

\* expandQuery: the synonym variations of one term, from synonym k on
SynonymQueries[query \in STRING, term \in STRING, synonymsForTerm \in Texts, expanded \in Texts, k \in Int] ==
  IF k > Len(synonymsForTerm) THEN expanded
  ELSE SynonymQueries[query, term, synonymsForTerm,
                      PushNew[expanded, ReplaceFirst[query, term, synonymsForTerm[k]]],
                      k + 1]

WithSynonyms[query \in STRING, terms \in Texts, expanded \in Texts, i \in Int] ==
  IF i > Len(terms) THEN expanded
  ELSE WithSynonyms[query, terms,
                    SynonymQueries[query, terms[i], SynonymsFor[terms[i]], expanded, 1],
                    i + 1]

\* expandQuery: the singular of a term that ends with s, the plural of another
Variation[query \in STRING, term \in STRING] ==
  IF SubSeq(term, Len(term), Len(term)) = "s"
  THEN ReplaceFirst[query, term, SubSeq(term, 1, Len(term) - 1)]
  ELSE ReplaceFirst[query, term, term \o "s"]

WithVariations[query \in STRING, terms \in Texts, expanded \in Texts, i \in Int] ==
  IF i > Len(terms) THEN expanded
  ELSE WithVariations[query, terms,
                      IF Len(terms[i]) > 4
                      THEN PushNew[expanded, Variation[query, terms[i]]]
                      ELSE expanded,
                      i + 1]

expandQuery(query) ==
  SliceTexts[WithVariations[query, Split[query, " "],
                            WithSynonyms[query, Split[query, " "], <<query>>, 1], 1],
             5]

----------------------------------------------------------------------------
(* AdvancedSearchEngine: the search index.  A Map is the sequence of its   *)
(* entries, in insertion order.                                            *)

TermCountMap == Seq(STRING \X Int)

\* map.get(key) || default
MapGet[map \in TermCountMap, key \in STRING, default \in Int] ==
  IF \E k \in 1..Len(map) : map[k][1] = key /\ map[k][2] # 0
  THEN map[CHOOSE k \in 1..Len(map) : map[k][1] = key][2]
  ELSE default

\* `${product.title}_${index}`
ProductId(product, index) == product.title \o "_" \o ToString(index)

\* buildSearchIndex: the terms of each product of the catalog
ProductTerms[catalog \in ProductSeqs] ==
  [index \in 1..Len(catalog) |-> tokenize(getProductText(catalog[index]))]

ConcatFrom[lists \in Seq(Texts), i \in Int] ==
  IF i > Len(lists) THEN <<>> ELSE lists[i] \o ConcatFrom[lists, i + 1]

\* buildSearchIndex: tf, how often each term occurs in one product
TermCounts[terms \in Texts, uniqueTerms \in Texts] ==
  [k \in 1..Len(uniqueTerms) |->
     <<uniqueTerms[k], Cardinality({j \in 1..Len(terms) : terms[j] = uniqueTerms[k]})>>]

\* buildSearchIndex: this.termFrequency, keyed by the id of the product
TermFrequencyOf[catalog \in ProductSeqs, productTerms \in Seq(Texts)] ==
  [index \in 1..Len(catalog) |->
     <<ProductId(catalog[index], index - 1),
       TermCounts[productTerms[index], Unique[productTerms[index]]]>>]

\* buildSearchIndex: this.documentFrequency, how many products hold each term
DocumentFrequencyOf[productTerms \in Seq(Texts), allTerms \in Texts] ==
  [k \in 1..Len(allTerms) |->
     <<allTerms[k],
       Cardinality({index \in 1..Len(productTerms) :
                      allTerms[k] \in WordSet[productTerms[index]]})>>]

buildSearchIndex(catalog) ==
  [termFrequency |-> TermFrequencyOf[catalog, ProductTerms[catalog]],
   documentFrequency |->
     DocumentFrequencyOf[ProductTerms[catalog],
                         Unique[ConcatFrom[ProductTerms[catalog], 1]]]]

\* this.termFrequency.get(productId) || new Map()
ProductTF(index, productId) ==
  IF \E k \in 1..Len(index.termFrequency) : index.termFrequency[k][1] = productId
  THEN index.termFrequency[
         CHOOSE k \in 1..Len(index.termFrequency) : index.termFrequency[k][1] = productId][2]
  ELSE <<>>

----------------------------------------------------------------------------
(* AdvancedSearchEngine: the relevance scores, in ten-thousandths          *)

\* Math.log(n) for the sizes a catalog of the model has
LnOf == <<0, 6931, 10986, 13863, 16094, 17918, 19459, 20794, 21972, 23026, 23979, 24849>>

\* the greatest r in lo..hi with r * r <= n
IsqrtBetween[n \in Int, lo \in Int, hi \in Int] ==
  IF lo >= hi THEN lo
  ELSE IF ((lo + hi + 1) \div 2) * ((lo + hi + 1) \div 2) <= n
       THEN IsqrtBetween[n, (lo + hi + 1) \div 2, hi]
       ELSE IsqrtBetween[n, lo, ((lo + hi + 1) \div 2) - 1]

\* 1 / Math.sqrt(docLength)
LengthNorm[docLength \in Int] ==
  IsqrtBetween[(ScoreUnit * ScoreUnit) \div docLength, 0, ScoreUnit]

\* calculateTFIDF: tf * idf of one term, 0 for a term the product lacks
TermTFIDF[termFreq \in Int, docLength \in Int, df \in Int, catalogSize \in Int] ==
  IF termFreq = 0 THEN 0
  ELSE (((termFreq * ScoreUnit) \div docLength) * (LnOf[catalogSize] - LnOf[df]))
         \div ScoreUnit

TFIDFSum[terms \in Texts, productTF \in TermCountMap, docLength \in Int, documentFrequency \in TermCountMap, catalogSize \in Int, k \in Int] ==
  IF k > Len(terms) THEN 0
  ELSE TermTFIDF[MapGet[productTF, terms[k], 0], docLength,
                 MapGet[documentFrequency, terms[k], 1], catalogSize]
         + TFIDFSum[terms, productTF, docLength, documentFrequency, catalogSize, k + 1]

\* 0 * (1 / Math.sqrt(0)) is NaN
TFIDF[terms \in Texts, productTF \in TermCountMap, docLength \in Int, documentFrequency \in TermCountMap, catalogSize \in Int] ==
  IF docLength = 0 THEN JsNaN
  ELSE (TFIDFSum[terms, productTF, docLength, documentFrequency, catalogSize, 1]
          * LengthNorm[docLength]) \div ScoreUnit

\* engine: the catalog and the index the constructor built from it
calculateTFIDF(engine, terms, productId, product) ==
  TFIDF[terms, ProductTF(engine.index, productId),
        Len(tokenize(getProductText(product))),
        engine.index.documentFrequency, Len(engine.products)]

----------------------------------------------------------------------------
(* AdvancedSearchEngine: the string similarity algorithms                  *)

Min3[a \in Int, b \in Int, c \in Int] == Min[a, Min[b, c]]

\* levenshteinDistance: one row of the matrix, filled from the left.  row
\* holds the cells 0..Len(row)-1 of the row, above the whole row before it, c
\* is the character of s2 the row stands for.
LevenshteinRow[s1 \in STRING, c \in STRING, above \in Seq(Int), row \in Seq(Int)] ==
  IF Len(row) > Len(s1) THEN row
  ELSE LevenshteinRow[s1, c, above,
         Append(row, Min3[row[Len(row)] + 1,
                          above[Len(row) + 1] + 1,
                          above[Len(row)]
                            + (IF SubSeq(s1, Len(row), Len(row)) = c THEN 0 ELSE 1)])]

LevenshteinFrom[s1 \in STRING, s2 \in STRING, j \in Int, above \in Seq(Int)] ==
  IF j > Len(s2) THEN above[Len(s1) + 1]
  ELSE LevenshteinFrom[s1, s2, j + 1, LevenshteinRow[s1, SubSeq(s2, j, j), above, <<j>>]]

levenshteinDistance(s1, s2) ==
  LevenshteinFrom[s1, s2, 1, [i \in 1..(Len(s1) + 1) |-> i - 1]]

LevenshteinOf[longer \in STRING, shorter \in STRING] ==
  IF Len(longer) = 0 THEN ScoreUnit
  ELSE ((Len(longer) - levenshteinDistance(longer, shorter)) * ScoreUnit) \div Len(longer)

levenshteinSimilarity(s1, s2) ==
  IF Len(s1) > Len(s2) THEN LevenshteinOf[s1, s2] ELSE LevenshteinOf[s2, s1]

\* jaroSimilarity: the first position of s2 inside the window of position i
\* of s1 that is not matched yet and holds the same character, 0 if none
JaroPartner[s1 \in STRING, s2 \in STRING, matchWindow \in Int, i \in Int, s2Matches \in SUBSET Int] ==
  LET window == {j \in (IF i - matchWindow > 1 THEN i - matchWindow ELSE 1)
                         ..Min[i + matchWindow, Len(s2)] :
                   j \notin s2Matches /\ SubSeq(s1, i, i) = SubSeq(s2, j, j)}
  IN  IF window = {} THEN 0 ELSE CHOOSE j \in window : \A k \in window : j <= k

\* jaroSimilarity: the pairs <<i, j>> the first loop matches, from i on
JaroMatches[s1 \in STRING, s2 \in STRING, matchWindow \in Int, i \in Int, matched \in SUBSET (Int \X Int)] ==
  IF i > Len(s1) THEN matched
  ELSE JaroMatches[s1, s2, matchWindow, i + 1,
         matched \cup
           { <<i, j>> : j \in {JaroPartner[s1, s2, matchWindow, i,
                                           {p[2] : p \in matched}]} \ {0} }]

\* jaroSimilarity: the second loop pairs the matched positions of s1 and of
\* s2 in ascending order and counts the pairs of different characters
JaroTranspositions[s1 \in STRING, s2 \in STRING, s1Matches \in SUBSET Int, s2Matches \in SUBSET Int] ==
  Cardinality({i \in s1Matches :
     \E k \in s2Matches :
        /\ Cardinality({x \in s1Matches : x < i}) = Cardinality({y \in s2Matches : y < k})
        /\ SubSeq(s1, i, i) # SubSeq(s2, k, k)})

JaroOf[s1 \in STRING, s2 \in STRING, matched \in SUBSET (Int \X Int)] ==
  IF matched = {} THEN 0
  ELSE ( (Cardinality(matched) * ScoreUnit) \div Len(s1)
       + (Cardinality(matched) * ScoreUnit) \div Len(s2)
       + ((2 * Cardinality(matched)
             - JaroTranspositions[s1, s2, {p[1] : p \in matched}, {p[2] : p \in matched}])
           * ScoreUnit) \div (2 * Cardinality(matched)) ) \div 3

jaroSimilarity(s1, s2) ==
  IF Len(s1) = 0 /\ Len(s2) = 0 THEN ScoreUnit
  ELSE IF Len(s1) = 0 \/ Len(s2) = 0 THEN 0
  ELSE IF (JsMax[Len(s1), Len(s2)] \div 2) - 1 < 0 THEN 0
  ELSE JaroOf[s1, s2, JaroMatches[s1, s2, (JsMax[Len(s1), Len(s2)] \div 2) - 1, 1, {}]]

\* jaroWinklerSimilarity: the length of the common prefix, up to 4 characters
CommonPrefix[s1 \in STRING, s2 \in STRING, i \in Int] ==
  IF i > Min3[Len(s1), Len(s2), 4] \/ SubSeq(s1, i, i) # SubSeq(s2, i, i) THEN 0
  ELSE 1 + CommonPrefix[s1, s2, i + 1]

JaroWinklerOf[jaro \in Int, prefix \in Int] ==
  IF jaro < Hundredths(70) THEN jaro ELSE jaro + (prefix * (ScoreUnit - jaro)) \div 10

jaroWinklerSimilarity(s1, s2) == JaroWinklerOf[jaroSimilarity(s1, s2), CommonPrefix[s1, s2, 1]]

getNgrams(text, n) == {SubSeq(text, i, i + n - 1) : i \in 1..(Len(text) - n + 1)}

NgramOf[ngrams1 \in SUBSET STRING, ngrams2 \in SUBSET STRING] ==
  IF ngrams1 = {} /\ ngrams2 = {} THEN ScoreUnit
  ELSE IF ngrams1 = {} \/ ngrams2 = {} THEN 0
  ELSE (Cardinality(ngrams1 \cap ngrams2) * ScoreUnit) \div Cardinality(ngrams1 \cup ngrams2)

ngramSimilarity(s1, s2, n) == NgramOf[getNgrams(s1, n), getNgrams(s2, n)]

\* text.indexOf(query), counted from 0
IndexOf[text \in STRING, query \in STRING] ==
  IF Len(query) = 0 THEN 0
  ELSE IF \E i \in 1..Len(text) : StartsAt[text, i, query]
       THEN (CHOOSE i \in 1..Len(text) :
               StartsAt[text, i, query] /\ \A k \in 1..(i - 1) : ~StartsAt[text, k, query]) - 1
  ELSE 0 - 1

\* weightedSubstringMatch: positionWeight * lengthWeight
PositionScore[index \in Int, queryLength \in Int, textLength \in Int] ==
  IF textLength = 0 THEN JsNaN
  ELSE IF index < 0 THEN 0
  ELSE ((ScoreUnit - (index * ScoreUnit) \div (2 * textLength))
          * ((queryLength * ScoreUnit) \div textLength)) \div ScoreUnit

\* weightedSubstringMatch: termMatches / queryTerms.length * 0.8
TermMatchScore[queryTerms \in Texts, text \in STRING] ==
  (((Cardinality({k \in 1..Len(queryTerms) : Includes[text, queryTerms[k]]}) * ScoreUnit)
      \div Len(queryTerms)) * 8) \div 10

weightedSubstringMatch(query, text) ==
  JsMax[PositionScore[IndexOf[text, query], Len(query), Len(text)],
        TermMatchScore[Split[query, " "], text]]

FuzzyOf[queryLower \in STRING, productText \in STRING, threshold \in Int] ==
  LET maxScore == JsMax[JsMax[levenshteinSimilarity(queryLower, productText),
                              jaroWinklerSimilarity(queryLower, productText)],
                        JsMax[ngramSimilarity(queryLower, productText, 3),
                              weightedSubstringMatch(queryLower, productText)]]
  IN  IF maxScore >= threshold THEN maxScore ELSE 0

calculateFuzzyScore(query, product, threshold) ==
  FuzzyOf[ToLowerCase[query], ToLowerCase[getProductText(product)], threshold]

----------------------------------------------------------------------------
(* AdvancedSearchEngine: candidate retrieval                               *)

\* a < b on JavaScript numbers: false when either is NaN
JsLess[a \in Int, b \in Int] == a # JsNaN /\ b # JsNaN /\ a < b

ExactOf[terms \in Texts, productText \in STRING, productWords \in SUBSET STRING] ==
  IF Len(terms) = 0 THEN JsNaN
  ELSE Min[ScoreUnit,
           (Cardinality({k \in 1..Len(terms) : terms[k] \in productWords}) * ScoreUnit)
               \div Len(terms)
             + (IF Includes[productText, JoinWith[terms, " "]] THEN Hundredths(50) ELSE 0)]

calculateExactMatches(terms, product) ==
  ExactOf[terms, ToLowerCase[getProductText(product)],
          WordSet[tokenize(ToLowerCase[getProductText(product)])]]

attributeKeywords ==
  {"bio", "organic", "vollkorn", "whole", "wheat", "fresh", "frisch",
   "natural", "natur", "premium", "extra", "virgin", "cold", "pressed"}

AttributeOf[terms \in Texts, productText \in STRING] ==
  Min[ScoreUnit,
      Cardinality({k \in 1..Len(terms) :
                     terms[k] \in attributeKeywords /\ Includes[productText, terms[k]]})
        * Hundredths(20)]

calculateAttributeScore(terms, product) ==
  AttributeOf[terms, ToLowerCase[getProductText(product)]]

semanticGroups ==
  << {"fresh", "vegetable", "fruit", "organic", "bio"},
     {"milk", "cheese", "yogurt", "butter", "cream"},
     {"meat", "fish", "tofu", "protein", "chicken"},
     {"bread", "pasta", "rice", "wheat", "flour", "cereal"} >>

SemanticOf[queryLower \in STRING, productText \in STRING] ==
  Min[ScoreUnit,
      Cardinality({g \in 1..Len(semanticGroups) :
                     /\ \E kw \in semanticGroups[g] : Includes[queryLower, kw]
                     /\ \E kw \in semanticGroups[g] : Includes[productText, kw]})
        * Hundredths(30)]

calculateSemanticSimilarity(query, product) ==
  SemanticOf[ToLowerCase[query], ToLowerCase[getProductText(product)]]

Breakdown(tfidf, fuzzy, semantic, exact, attribute, category, final) ==
  [tfidf |-> tfidf, fuzzy |-> fuzzy, semantic |-> semantic, exact |-> exact,
   attribute |-> attribute, category |-> category, final |-> final]

BreakdownSet == [tfidf : Int, fuzzy : Int, semantic : Int, exact : Int, attribute : Int, category : Int, final : Int]

SearchResult(product, score, tier, relevanceBreakdown) ==
  [product |-> product, score |-> score, tier |-> tier,
   relevanceBreakdown |-> relevanceBreakdown]

SearchResultSet == [product : ProductSet, score : Int, tier : STRING, relevanceBreakdown : BreakdownSet]

SearchResults == Seq(SearchResultSet)

SearchConfig(maxResults, fuzzyThreshold, enableSemanticSearch, diversityFactor, queryExpansion) ==
  [maxResults |-> maxResults, fuzzyThreshold |-> fuzzyThreshold,
   enableSemanticSearch |-> enableSemanticSearch, diversityFactor |-> diversityFactor,
   queryExpansion |-> queryExpansion]

ConfigSet == [maxResults : Int, fuzzyThreshold : Int, enableSemanticSearch : BOOLEAN, diversityFactor : Int, queryExpansion : BOOLEAN]

getDefaultConfig == SearchConfig(10, Hundredths(30), TRUE, Hundredths(30), TRUE)

\* the engine: this.products and the index the constructor built
EngineSet == [products : ProductSeqs, index : [termFrequency : Seq(STRING \X TermCountMap), documentFrequency : TermCountMap]]

AdvancedSearchEngine(catalog) == [products |-> catalog, index |-> buildSearchIndex(catalog)]

determineTier(breakdown) ==
  IF breakdown.exact > Hundredths(70) THEN "tier1"
  ELSE IF breakdown.tfidf > Hundredths(50) \/ breakdown.fuzzy > Hundredths(60) THEN "tier2"
  ELSE "tier3"

\* retrieveCandidates: the early filter, and the candidate of a product
Retrieved[product \in ProductSet, breakdown \in BreakdownSet] ==
  LET preliminaryScore == JsMax[JsMax[breakdown.tfidf, breakdown.fuzzy], breakdown.exact]
  IN  IF JsLess[preliminaryScore, Hundredths(10)] THEN <<>>
      ELSE <<SearchResult(product, preliminaryScore, determineTier(breakdown), breakdown)>>

\* retrieveCandidates: the relevance scores of the product at index i of
\* categoryProducts
ScoreProduct[engine \in EngineSet, query \in STRING, terms \in Texts, categories \in Texts, config \in ConfigSet, product \in ProductSet, i \in Int] ==
  Retrieved[product,
    Breakdown(calculateTFIDF(engine, terms, ProductId(product, i), product),
              calculateFuzzyScore(query, product, config.fuzzyThreshold),
              IF config.enableSemanticSearch
              THEN calculateSemanticSimilarity(query, product) ELSE 0,
              calculateExactMatches(terms, product),
              calculateAttributeScore(terms, product),
              IF SeqIncludes(categories, product.category)
              THEN ScoreUnit ELSE Hundredths(50),
              0)]

RetrieveFrom[engine \in EngineSet, query \in STRING, terms \in Texts, categories \in Texts, config \in ConfigSet, categoryProducts \in ProductSeqs, i \in Int] ==
  IF i > Len(categoryProducts) THEN <<>>
  ELSE ScoreProduct[engine, query, terms, categories, config, categoryProducts[i], i - 1]
         \o RetrieveFrom[engine, query, terms, categories, config, categoryProducts, i + 1]

\* this.products.filter(p => categories.length === 0 || categories.includes(p.category))
CategoryProducts[catalog \in ProductSeqs, categories \in Texts] ==
  SelectSeq(catalog, LAMBDA p : Len(categories) = 0 \/ SeqIncludes(categories, p.category))

retrieveCandidates(engine, query, categories, config) ==
  RetrieveFrom[engine, query, tokenize(query), categories, config,
               CategoryProducts[engine.products, categories], 1]

----------------------------------------------------------------------------
(* AdvancedSearchEngine: ranking, diversification, quality filter, search  *)

\* x * (num / den) on a score; NaN stays NaN
Scale[x \in Int, num \in Int, den \in Int] ==
  IF x = JsNaN THEN JsNaN ELSE (x * num) \div den

\* applyRankingFusion: the weighted linear combination
FusedScore[breakdown \in BreakdownSet] ==
  IF breakdown.exact = JsNaN \/ breakdown.tfidf = JsNaN THEN JsNaN
  ELSE (breakdown.exact * 35 + breakdown.tfidf * 25 + breakdown.fuzzy * 15
          + breakdown.semantic * 10 + breakdown.attribute * 10 + breakdown.category * 5)
         \div 100

brands == <<"bio", "rewe", "ja!", "edeka">>

\* applyRankingFusion: finalScore *= 1.1 for each brand, from brand k on
BrandBoost[finalScore \in Int, queryLower \in STRING, titleLower \in STRING, k \in Int] ==
  IF k > Len(brands) THEN finalScore
  ELSE BrandBoost[IF Includes[queryLower, brands[k]] /\ Includes[titleLower, brands[k]]
                  THEN Scale[finalScore, 11, 10] ELSE finalScore,
                  queryLower, titleLower, k + 1]

FinalScore[breakdown \in BreakdownSet, queryLower \in STRING, titleLower \in STRING] ==
  BrandBoost[IF Includes[titleLower, queryLower]
             THEN Scale[FusedScore[breakdown], 12, 10] ELSE FusedScore[breakdown],
             queryLower, titleLower, 1]

\* applyRankingFusion: breakdown.final = finalScore; result.score = finalScore
Fused[result \in SearchResultSet, finalScore \in Int] ==
  SearchResult(result.product, finalScore, result.tier,
               [result.relevanceBreakdown EXCEPT !.final = finalScore])

\* results.sort((a, b) => b.score - a.score): descending by score, stable;
\* a difference of NaN counts as 0
SortResults[q \in SearchResults] ==
  LET Before[i \in 1..Len(q)] ==
        Cardinality({j \in 1..Len(q) :
                       \/ JsLess[q[i].score, q[j].score]
                       \/ ~JsLess[q[j].score, q[i].score] /\ j < i})
  IN  [k \in 1..Len(q) |-> q[CHOOSE i \in 1..Len(q) : Before[i] = k - 1]]

FuseAll[results \in SearchResults, queryLower \in STRING] ==
  [k \in 1..Len(results) |->
     Fused[results[k], FinalScore[results[k].relevanceBreakdown, queryLower,
                                  ToLowerCase[results[k].product.title]]]]

applyRankingFusion(results, query) == SortResults[FuseAll[results, ToLowerCase[query]]]

BrandNames == <<"REWE", "ja!", "Bio", "EDEKA", "K-Classic", "Gut&Günstig">>

extractBrand(title) ==
  IF \E k \in 1..Len(BrandNames) : Includes[title, BrandNames[k]]
  THEN BrandNames[CHOOSE k \in 1..Len(BrandNames) :
                    /\ Includes[title, BrandNames[k]]
                    /\ \A j \in 1..(k - 1) : ~Includes[title, BrandNames[j]]]
  ELSE "Other"

\* diversifyResults: result.score * (1 - diversityPenalty * diversityFactor)
AdjustedScore[score \in Int, brandOverlap \in BOOLEAN, categoryOverlap \in BOOLEAN, diversityFactor \in Int] ==
  Scale[score,
        ScoreUnit - (((IF brandOverlap THEN Hundredths(50) ELSE 0)
                        + (IF categoryOverlap THEN Hundredths(30) ELSE 0))
                       * diversityFactor) \div ScoreUnit,
        ScoreUnit]

\* diversifyResults: the loop over the results, from result k on; it stops
\* once 20 results are kept
DiversifyFrom[results \in SearchResults, diversityFactor \in Int, k \in Int, diversified \in SearchResults, seenBrands \in SUBSET STRING, seenCategories \in SUBSET STRING] ==
  IF k > Len(results) THEN diversified
  ELSE IF \/ Len(diversified) < 3
          \/ JsLess[Hundredths(10),
                    AdjustedScore[results[k].score,
                                  extractBrand(results[k].product.title) \in seenBrands,
                                  results[k].product.category \in seenCategories,
                                  diversityFactor]]
          \/ Len(diversified) < 10
       THEN IF Len(diversified) + 1 >= 20
            THEN Append(diversified, results[k])
            ELSE DiversifyFrom[results, diversityFactor, k + 1,
                               Append(diversified, results[k]),
                               seenBrands \cup {extractBrand(results[k].product.title)},
                               seenCategories \cup {results[k].product.category}]
       ELSE DiversifyFrom[results, diversityFactor, k + 1, diversified,
                          seenBrands, seenCategories]

diversifyResults(results, diversityFactor) ==
  IF diversityFactor <= 0 \/ Len(results) <= 5 THEN results
  ELSE DiversifyFrom[results, diversityFactor, 1, <<>>, {}, {}]

\* applyQualityFilters: whether the filter keeps the result
QualityKeeps[result \in SearchResultSet, queryTerms \in Texts, categories \in Texts, productText \in STRING] ==
  /\ ~JsLess[result.score, Hundredths(5)]
  /\ ~ /\ Len(categories) > 0
       /\ ~SeqIncludes(categories, result.product.category)
       /\ JsLess[result.score, Hundredths(80)]
  /\ \E k \in 1..Len(queryTerms) :
       \/ Includes[productText, queryTerms[k]]
       \/ result.relevanceBreakdown.fuzzy > Hundredths(30)

QualityFrom[results \in SearchResults, queryTerms \in Texts, categories \in Texts, k \in Int] ==
  IF k > Len(results) THEN <<>>
  ELSE (IF QualityKeeps[results[k], queryTerms, categories,
                        ToLowerCase[getProductText(results[k].product)]]
        THEN <<results[k]>> ELSE <<>>)
         \o QualityFrom[results, queryTerms, categories, k + 1]

applyQualityFilters(results, query, categories) ==
  QualityFrom[results, tokenize(ToLowerCase[query]), categories, 1]

\* search: the Map of candidates after the results of one expanded query are
\* merged into it, from result k on.  The key is the place of the product in
\* this.products; the products of a catalog are distinct.
MergeFrom[candidates \in SearchResults, queryResults \in SearchResults, boost \in Int, k \in Int] ==
  IF k > Len(queryResults) THEN candidates
  ELSE IF \E e \in 1..Len(candidates) : candidates[e].product = queryResults[k].product
       THEN MergeFrom[
              [e \in 1..Len(candidates) |->
                 IF candidates[e].product = queryResults[k].product
                 THEN [candidates[e] EXCEPT
                         !.score = JsMax[candidates[e].score,
                                         Scale[queryResults[k].score, boost, ScoreUnit]]]
                 ELSE candidates[e]],
              queryResults, boost, k + 1]
       ELSE MergeFrom[
              Append(candidates,
                     [queryResults[k] EXCEPT
                        !.score = Scale[queryResults[k].score, boost, ScoreUnit]]),
              queryResults, boost, k + 1]

\* search, stage 2: the candidates of every expanded query, from query k on
CandidatesFrom[engine \in EngineSet, expandedQueries \in Texts, processedQuery \in STRING, categories \in Texts, config \in ConfigSet, k \in Int, candidates \in SearchResults] ==
  IF k > Len(expandedQueries) THEN candidates
  ELSE CandidatesFrom[engine, expandedQueries, processedQuery, categories, config, k + 1,
         MergeFrom[candidates,
                   retrieveCandidates(engine, expandedQueries[k], categories, config),
                   IF expandedQueries[k] = processedQuery
                   THEN ScoreUnit ELSE Hundredths(80),
                   1]]

\* results.slice(0, n)
SliceResults[q \in SearchResults, n \in Int] == SubSeq(q, 1, Min[n, Len(q)])

\* search, stages 2 to 5, for the processed query
SearchStages[engine \in EngineSet, processedQuery \in STRING, categories \in Texts, config \in ConfigSet] ==
  SliceResults[
    applyQualityFilters(
      diversifyResults(
        applyRankingFusion(
          CandidatesFrom[engine,
                         IF config.queryExpansion
                         THEN expandQuery(processedQuery) ELSE <<processedQuery>>,
                         processedQuery, categories, config, 1, <<>>],
          processedQuery),
        config.diversityFactor),
      processedQuery, categories),
    config.maxResults]

\* the search with the target categories left out
searchMutant(engine, query, categories, config) ==
  SearchStages[engine, preprocessQuery(query), <<>>, config]

\* AdvancedSearchEngine.search
search(engine, query, categories, config) ==
  SearchStages[engine, preprocessQuery(query), categories, config]

----------------------------------------------------------------------------
(* GroceryService: the search that processShoppingList uses                *)
(* (src/src/lib/grocery-service.ts, findMatchingProductsWorldClass)        *)

\* .replace(/\d+\s*(g|kg|ml|l|stück|x)\s*/g, ''): the unit a quantity that
\* starts at i ends with, "" if no quantity starts at i
QuantityUnit[s \in STRING, i \in Int] ==
  IF ~IsDigit[CharAt[s, i]] THEN ""
  ELSE FirstAlt[s, SkipSpaces[s, DigitRunEnd[s, i] + 1],
                <<"g", "kg", "ml", "l", "stück", "x">>]

RemoveQuantitiesFrom[s \in STRING, i \in Int] ==
  IF i > Len(s) THEN ""
  ELSE IF QuantityUnit[s, i] # ""
       THEN RemoveQuantitiesFrom[s,
              SkipSpaces[s, SkipSpaces[s, DigitRunEnd[s, i] + 1] + Len(QuantityUnit[s, i])]]
       ELSE SubSeq(s, i, i) \o RemoveQuantitiesFrom[s, i + 1]

\* buildAdvancedSearchQuery: the query with the context of the original text
WithOriginalTerms[query \in STRING, originalTerms \in STRING] ==
  IF originalTerms # "" /\ ~Includes[ToLowerCase[query], originalTerms]
  THEN query \o " " \o originalTerms
  ELSE query

AdvancedQuery[item \in ItemSet, query \in STRING] ==
  IF /\ item.originalText # item.item
     /\ ToLowerCase[item.originalText] # ToLowerCase[item.item]
  THEN WithOriginalTerms[query, Trim[RemoveQuantitiesFrom[ToLowerCase[item.originalText], 1]]]
  ELSE query

buildAdvancedSearchQuery(item) ==
  Trim[AdvancedQuery[item,
                     IF Len(item.attributes) > 0
                     THEN JoinWith[item.attributes, " "] \o " " \o item.item
                     ELSE item.item]]

\* calculateQuantityAppropriatenessBonus: the bonus of neededGrams / productGrams
RatioBonus[neededGrams \in NumSet \cup {Null}, productGrams \in NumSet \cup {Null}] ==
  IF neededGrams = Null \/ productGrams = Null THEN 0
  ELSE IF neededGrams.v = 0 \/ productGrams.v = 0 THEN 0
  ELSE IF 2 * neededGrams.v >= productGrams.v /\ neededGrams.v <= 2 * productGrams.v
       THEN ScoreUnit
  ELSE IF 4 * neededGrams.v >= productGrams.v /\ neededGrams.v <= 4 * productGrams.v
       THEN Hundredths(70)
  ELSE IF 10 * neededGrams.v >= productGrams.v /\ neededGrams.v <= 10 * productGrams.v
       THEN Hundredths(40)
  ELSE IF neededGrams.v > 20 * productGrams.v \/ 20 * neededGrams.v < productGrams.v
       THEN 0 - Hundredths(50)
  ELSE 0

VolumeRatioBonus[productVolume \in VolumeSet \cup {Null, Thrown}, amount \in Int, unit \in STRING] ==
  IF productVolume = Thrown THEN Thrown
  ELSE IF productVolume = Null THEN Num(0)
  ELSE Num(RatioBonus[convertToGrams(amount, unit),
                      convertToGrams(productVolume.amount, productVolume.unit)])

\* Thrown when product.volume is undefined
calculateQuantityAppropriatenessBonus(product, item) ==
  VolumeRatioBonus[parseVolume(product.volume), item.amount, item.unit]

\* categoryPriceRanges[product.category] || [0.5, 10.0], in cents
categoryPriceRanges(category) ==
  IF category = "Obst & Gemüse" THEN <<50, 500>>
  ELSE IF category = "Käse, Eier & Molkerei" THEN <<100, 800>>
  ELSE IF category = "Fleisch & Fisch" THEN <<200, 2000>>
  ELSE IF category = "Kochen & Backen" THEN <<50, 600>>
  ELSE IF category = "Brot, Cerealien & Aufstriche" THEN <<100, 800>>
  ELSE <<50, 1000>>

PriceBonus[price \in Int, minPrice \in Int, maxPrice \in Int] ==
  IF price >= minPrice /\ price <= maxPrice THEN ScoreUnit
  ELSE IF price > maxPrice
       THEN JsMax[0, ScoreUnit - ((price - maxPrice) * ScoreUnit) \div maxPrice]
  ELSE Hundredths(50)

calculatePriceReasonablenessBonus(product, item) ==
  PriceBonus[product.price, categoryPriceRanges(product.category)[1],
             categoryPriceRanges(product.category)[2]]

FreshnessOf[title \in STRING] ==
  IF Includes[title, "frisch"] \/ Includes[title, "fresh"] THEN ScoreUnit
  ELSE IF Includes[title, "bio"] \/ Includes[title, "organic"] THEN Hundredths(80)
  ELSE IF Includes[title, "premium"] \/ Includes[title, "extra"] THEN Hundredths(60)
  ELSE 0

calculateFreshnessBonus(product) == FreshnessOf[ToLowerCase[product.title]]

BrandTrustOf[title \in STRING] ==
  IF Includes[title, "bio"] \/ Includes[title, "organic"] THEN ScoreUnit
  ELSE IF Includes[title, "rewe"] THEN Hundredths(80)
  ELSE IF Includes[title, "premium"] \/ Includes[title, "extra"] THEN Hundredths(60)
  ELSE IF Includes[title, "ja!"] \/ Includes[title, "basic"] THEN Hundredths(40)
  ELSE 0

calculateBrandTrustBonus(product) == BrandTrustOf[ToLowerCase[product.title]]

\* Math.min(1.0, score + quantityBonus * 0.1 + priceBonus * 0.05
\*                     + freshnessBonus * 0.1 + trustBonus * 0.05)
EnhancedScore[score \in Int, quantityBonus \in NumSet \cup {Thrown}, priceBonus \in Int, freshnessBonus \in Int, trustBonus \in Int] ==
  IF quantityBonus = Thrown THEN Thrown
  ELSE IF score = JsNaN THEN Num(JsNaN)
  ELSE Num(Min[ScoreUnit,
               score + quantityBonus.v \div 10 + priceBonus \div 20
                 + freshnessBonus \div 10 + trustBonus \div 20])

enhanceScoreWithGroceryContext(result, item) ==
  EnhancedScore[result.score,
                calculateQuantityAppropriatenessBonus(result.product, item),
                calculatePriceReasonablenessBonus(result.product, item),
                IF item.itemType = "fresh_produce"
                THEN calculateFreshnessBonus(result.product) ELSE 0,
                calculateBrandTrustBonus(result.product)]

mapAdvancedTierToGroceryTier(advancedTier) ==
  IF advancedTier = "tier1" THEN "advanced_tier1"
  ELSE IF advancedTier = "tier2" THEN "advanced_tier2"
  ELSE IF advancedTier = "tier3" THEN "advanced_tier3"
  ELSE "advanced_match"

\* findMatchingProductsWorldClass, step 3: searchConfig
WorldClassConfig == SearchConfig(15, Hundredths(20), TRUE, Hundredths(40), TRUE)

\* findMatchingProductsWorldClass, step 5: the enhanced score of each search
\* result, Thrown where enhanceScoreWithGroceryContext throws
EnhancedScores[searchResults \in SearchResults, item \in ItemSet] ==
  [k \in 1..Len(searchResults) |-> enhanceScoreWithGroceryContext(searchResults[k], item)]

\* findMatchingProductsWorldClass, step 5: the candidates in the format of the
\* grocery service; the catch falls back to the ultra-fast search
WorldClassCandidates[catalog \in ProductSeqs, item \in ItemSet, searchResults \in SearchResults, scores \in Seq(NumSet \cup {Thrown})] ==
  IF \E k \in 1..Len(scores) : scores[k] = Thrown
  THEN findMatchingProductsUltraFast(catalog, item).candidates
  ELSE [k \in 1..Len(searchResults) |->
          [product |-> searchResults[k].product, score |-> scores[k].v,
           tier |-> mapAdvancedTierToGroceryTier(searchResults[k].tier),
           relevanceBreakdown |-> searchResults[k].relevanceBreakdown]]

WorldClassResults[catalog \in ProductSeqs, item \in ItemSet, searchResults \in SearchResults] ==
  WorldClassCandidates[catalog, item, searchResults, EnhancedScores[searchResults, item]]

findMatchingProductsWorldClass(engine, item) ==
  WorldClassResults[engine.products, item,
                    search(engine, buildAdvancedSearchQuery(item),
                           determineCategoriesNoAI(item), WorldClassConfig)]

----------------------------------------------------------------------------
(* Specifications.  Each one exercises one part of the program and leaves  *)
(* the variables of the other parts as they are.                           *)

QIdle == qItem = Null /\ qCand = Null /\ qOp = "none" /\ qMatch = Null

TIdle ==
  tItem = Null /\ tOp = "none" /\ tAnswers = Null /\ tSearches = <<>> /\ tCandidates = <<>>

FIdle == fShortlist = <<>> /\ fQuality = Null /\ fOp = "none" /\ fResult = <<>>

EIdle ==
  eQuery = "" /\ eCategories = <<>> /\ eConfig = Null /\ eOp = "none" /\ eResults = <<>>

PIdle ==
  /\ shoppingList = ""
  /\ shoppingItems = <<>>
  /\ pc = "idle"
  /\ itemsDone = 0
  /\ processed = <<>>
  /\ candidatesLog = <<>>
  /\ foundItems = <<>>
  /\ notFound = <<>>
  /\ totalCost = 0
  /\ parseOutcome = Null

RIdle ==
  /\ rMaxRetries = 0
  /\ rInitialDelay = 0
  /\ rAttempt = 0
  /\ rOutcomes = <<>>
  /\ rDelays = <<>>
  /\ rLastError = Undefined
  /\ rPc = "idle"
  /\ rResult = Null

CIdle == cItem = Null /\ cAnswer = Null /\ cOp = "none" /\ cCategories = <<>>

SIdle == sFile = Null /\ sOp = "none" /\ groceryService = Null

VIdle == vInput = Null /\ vOp = "none" /\ vResult = Null

DIdle == dResults = <<>> /\ dFactor = 0 /\ dOp = "none" /\ dOutput = <<>>

HIdle == hPc = <<>> /\ hInit = <<>> /\ hService = <<>> /\ hStatus = <<>> /\ hInstances = {}

XIdle == xCalls = <<>> /\ productIndex = Null

----------------------------------------------------------------------------
(* Quantity resolution on its own: one item, one candidate, one call.      *)

MaxQuarterKilos == 6

MaxEstimate == 2

Units == {"g", "kg", "ml", "l", "stück"}

QAmounts == {0, 1, 2} \cup {250 * k : k \in 1..MaxQuarterKilos}

QProducts ==
  << Product("Fleisch & Fisch", "Fester Tofu", 149, "200g"),
    Product("Käse, Eier & Molkerei", "Bio Vollmilch", 119, "1L"),
    Product("Obst & Gemüse", "Kartoffeln festkochend", 299, "2 kg"),
    Product("Käse, Eier & Molkerei", "Eier Freiland", 259, "10 Stück"),
    Product("Obst & Gemüse", "Petersilie", 99, "Bund"),
    Product("Öle, Soßen & Gewürze", "Olivenöl 2x500ml", 899, "2x500ml"),
    Product("Süßes & Salziges", "Gratisprobe", 0, "0g"),
    Product("Kochen & Backen", "Mehl", 89, Undefined) >>

QItems ==
  { ShoppingItem("tofu", a, u, "tofu", <<>>, <<>>, "unknown") : a \in QAmounts, u \in Units }

QCandidates == { Candidate(p, Hundredths(240), "tier1") : p \in SeqToSet(QProducts) }

\* what OpenAIClient.calculateQuantity may answer
SmartAnswers ==
  { [unitsNeeded |-> n, actualAmount |-> n, actualUnit |-> "stück"] : n \in 0..MaxEstimate }

\* the variables no step of quantity resolution changes
QRest == <<products, searchIndex, tVars, fVars, eVars, pVars, rVars, cVars, sVars, vVars, dVars, hVars, xVars>>

QInit ==
  /\ products = QProducts
  /\ searchIndex = Null
  /\ RIdle
  /\ CIdle
  /\ SIdle
  /\ VIdle
  /\ TIdle
  /\ FIdle
  /\ EIdle
  /\ PIdle
  /\ DIdle
  /\ HIdle
  /\ XIdle
  /\ qItem \in QItems
  /\ qCand \in QCandidates
  /\ qOp = "none"
  /\ qMatch = Null

\* processShoppingList, line 90: calculateQuantitySimple(item, candidates[0])
QSimple ==
  /\ qOp = "none"
  /\ qMatch' = calculateQuantitySimple(qItem, qCand)
  /\ qOp' = "simple"
  /\ UNCHANGED <<qItem, qCand, QRest>>

\* calculateQuantityForProduct(item, candidate), with the estimator's outcome
QForProduct ==
  /\ qOp = "none"
  /\ \E smartQuantity \in SmartAnswers \cup {Thrown} :
       qMatch' = calculateQuantityForProduct(qItem, qCand, smartQuantity)
  /\ qOp' = "forProduct"
  /\ UNCHANGED <<qItem, qCand, QRest>>

QNext == QSimple \/ QForProduct

SpecQuantity == QInit /\ [][QNext]_vars

----------------------------------------------------------------------------
(* Claims                                                                  *)

\* C2: every Match of quantity resolution (calculateQuantitySimple, and the
\* deterministic branch of calculateQuantityForProduct) has an integer
\* unitsNeeded >= 1, for every requested amount >= 0 and every pack amount.
C2_UnitsNeededAtLeastOne ==
  (qOp # "none" /\ qMatch # Null /\ qMatch.matchReasoning = "deterministic")
    => (IsFinite(qMatch.unitsNeeded) /\ qMatch.unitsNeeded >= 1)

IsMassOrVolume(unit) == unit \in {"g", "kg", "ml", "l"}

Incompatible(unitA, unitB) ==
  \/ unitA = "stück" /\ IsMassOrVolume(unitB)
  \/ unitB = "stück" /\ IsMassOrVolume(unitA)

\* C7: with incompatible units (one side piece, the other mass or volume)
\* the Match of processShoppingList's quantity resolution is estimated:
\* tier ai_smart and confidence = score * 0.75.
C7_IncompatibleUnitsAreEstimated ==
  (/\ qOp = "simple"
   /\ parseVolume(qCand.product.volume) \notin {Null, Thrown}
   /\ Incompatible(qItem.unit, parseVolume(qCand.product.volume).unit))
    => (/\ qMatch # Null
        /\ qMatch.matchTier = "ai_smart"
        /\ qMatch.confidence = ConfidenceOf(qCand.score, 75))

----------------------------------------------------------------------------
(* The tiered orchestrators on their own: one item, one call of one        *)
(* variant, with every outcome of the collaborators it asks.               *)

Dairy == "Käse, Eier & Molkerei"

TProducts ==
  << Product(Dairy, "Bio Vollmilch", 119, "1L"),
     Product(Dairy, "Weihenstephan Milch", 139, "1L"),
     Product(Dairy, "REWE Milch fettarm", 99, "1L"),
     Product(Dairy, "ja! H-Milch", 89, "1L"),
     Product(Dairy, "Landliebe Landmilch", 149, "1L"),
     Product(Dairy, "Bärenmarke Alpenmilch", 159, "1L"),
     Product(Dairy, "Berchtesgadener Bergbauern Milch", 169, "1L"),
     Product(Dairy, "Arla Bio Weidemilch", 155, "1L"),
     Product(Dairy, "MinusL Milch laktosefrei", 145, "1L"),
     Product(Dairy, "Schwarzwaldmilch frisch", 135, "1L"),
     Product(Dairy, "Hansano Milch", 125, "500ml"),
     Product(Dairy, "Milram Buttermilch", 79, "500g"),
     Product(Dairy, "Müller Milch Schoko", 109, "400ml"),
     Product(Dairy, "Eier Freiland", 259, "10 Stück"),
     Product(Dairy, "Gouda jung", 199, "400g"),
     Product("Fleisch & Fisch", "Fester Tofu", 149, "200g"),
     Product("Fleisch & Fisch", "Taifun Tofu Natur", 229, "200g"),
     Product("Fleisch & Fisch", "Bio Räuchertofu", 249, "175g"),
     Product("Fleisch & Fisch", "Hähnchenbrust", 599, "400g"),
     Product("Obst & Gemüse", "Lauchzwiebeln", 79, "Bund"),
     Product("Obst & Gemüse", "Zwiebeln rot", 129, "1 kg"),
     Product("Obst & Gemüse", "fester tofu", 139, "200g"),
     Product("Kochen & Backen", "Weizenmehl", 89, "1 kg") >>

TItems ==
  { ShoppingItem("milch", 1, "l", "1l Milch", <<"bio">>, <<"haferdrink">>, "dairy"),
    ShoppingItem("tofu", 400, "g", "400g fester Tofu", <<"fest">>, <<"natur">>, "unknown"),
    ShoppingItem("eier", 6, "stück", "6 Eier", <<>>, <<"freiland">>, "dairy"),
    ShoppingItem("green onion", 1, "stück", "green onion", <<>>, <<>>, "fresh_produce"),
    ShoppingItem("quinoa", 500, "g", "500g Quinoa", <<>>, <<"mehl">>, "dry_goods"),
    ShoppingItem("weizen mehl", 1, "kg", "Weizen Mehl", <<>>, <<>>, "unknown"),
    ShoppingItem("weizen mehl", 1, "kg", "1kg Bio Weizen Mehl", <<"bio">>, <<>>, "dry_goods") }

\* what OpenAIClient.determineCategories may answer
CategoryAnswers ==
  { [categories |-> <<>>],
    [categories |-> <<Dairy>>],
    [categories |-> <<"Fleisch & Fisch", "Obst & Gemüse">>] }

\* what OpenAIClient.generateSearchTiers may answer
SearchTiersAnswers ==
  { SearchTiers(<<"milch">>, <<"vollmilch", "h-milch">>, <<"haferdrink">>),
    SearchTiers(<<"tofu", "eier">>, <<"natur", "ei">>, <<"fest", "freiland">>) }

MaxSelections == 2

\* what OpenAIClient.qualityFilter may answer: up to MaxSelections indexes,
\* some of them outside the shortlist
QualityAnswers ==
  { QualityFilterResult(indexes) :
      indexes \in UNION { [1..n -> {0 - 1, 0, 7, 20}] : n \in 0..MaxSelections } }

Answers(categoryResult, searchTiersResult, qualityResult) ==
  [categoryResult |-> categoryResult, searchTiersResult |-> searchTiersResult,
   qualityResult |-> qualityResult]

\* the collaborator was not asked
NotAsked == [tag |-> "not asked"]

\* the variables no step of the orchestrators changes
TRest == <<products, searchIndex, qVars, fVars, eVars, pVars, rVars, cVars, sVars, vVars, dVars, hVars, xVars>>

TInit ==
  /\ products = TProducts
  /\ searchIndex = Null
  /\ RIdle
  /\ CIdle
  /\ SIdle
  /\ VIdle
  /\ QIdle
  /\ FIdle
  /\ EIdle
  /\ PIdle
  /\ DIdle
  /\ HIdle
  /\ XIdle
  /\ tItem \in TItems
  /\ tOp = "none"
  /\ tAnswers = Null
  /\ tSearches = <<>>
  /\ tCandidates = <<>>

TReturn(op, answers, found) ==
  /\ tOp' = op
  /\ tAnswers' = answers
  /\ tSearches' = found.searches
  /\ tCandidates' = found.candidates
  /\ UNCHANGED <<tItem, TRest>>

TFindMatchingProducts ==
  /\ tOp = "none"
  /\ \E categoryResult \in CategoryAnswers \cup {Thrown},
        searchTiersResult \in SearchTiersAnswers \cup {Thrown},
        qualityResult \in QualityAnswers \cup {Thrown} :
       \E found \in {findMatchingProducts(products, tItem, categoryResult,
                                            searchTiersResult, qualityResult)} :
         TReturn("findMatchingProducts",
                 Answers(categoryResult, searchTiersResult, qualityResult), found)

TFindMatchingProductsFast ==
  /\ tOp = "none"
  /\ \E categoryResult \in CategoryAnswers \cup {Thrown},
        searchTiersResult \in SearchTiersAnswers \cup {Thrown} :
       \E found \in {findMatchingProductsFast(products, tItem, categoryResult,
                                                searchTiersResult)} :
         TReturn("findMatchingProductsFast",
                 Answers(categoryResult, searchTiersResult, NotAsked), found)

TFindMatchingProductsUltraFast ==
  /\ tOp = "none"
  /\ \E found \in {findMatchingProductsUltraFast(products, tItem)} :
       TReturn("findMatchingProductsUltraFast", Answers(NotAsked, NotAsked, NotAsked), found)

TNext ==
  \/ TFindMatchingProducts
  \/ TFindMatchingProductsFast
  \/ TFindMatchingProductsUltraFast

SpecTiers == TInit /\ [][TNext]_vars

\* the tier search ran
Ran(tier) == \E k \in 1..Len(tSearches) : tSearches[k].tier = tier

\* how many candidates the search of the tier produced, 0 if it did not run
MatchesOf(tier) ==
  IF Ran(tier) THEN tSearches[CHOOSE k \in 1..Len(tSearches) : tSearches[k].tier = tier].matches
  ELSE 0

\* the tiers searched are 1, or 1 then 2, or 1 then 2 then 3, or 1 then 3
TiersInOrder ==
  /\ tSearches[1].tier = "tier1"
  /\ \A j, k \in 1..Len(tSearches) :
       j < k => <<tSearches[j].tier, tSearches[k].tier>>
                  \in {<<"tier1", "tier2">>, <<"tier1", "tier3">>, <<"tier2", "tier3">>}

\* an orchestrator returned after searching
Searched == tOp # "none" /\ tSearches # <<>>

\* C5 as stated: in every variant of the tiered orchestrator the tiers are
\* searched in the order 1, 2, 3, tier 2 exactly when tier 1 produced fewer
\* than 5 candidates and tier 3 exactly when the candidates of the earlier
\* tiers are fewer than 3.
C5_TiersExactlyWhen ==
  Searched =>
    /\ TiersInOrder
    /\ Ran("tier2") <=> MatchesOf("tier1") < 5
    /\ Ran("tier3") <=> MatchesOf("tier1") + MatchesOf("tier2") < 3

\* C5, amended: the tiers are searched in the order 1, 2, 3.  Tier 2 is
\* searched only if tier 1 produced fewer than 5 candidates and tier 3 only if
\* the earlier tiers produced fewer than 3.  findMatchingProducts searches
\* tier 2 exactly when tier 1 produced fewer than 5 and tier 3 exactly when
\* the earlier tiers produced fewer than 3; findMatchingProductsFast searches
\* tier 2 exactly when tier 1 produced fewer than 5 and never tier 3;
\* findMatchingProductsUltraFast searches tier 2 exactly when tier 1 produced
\* fewer than 3 and never tier 3.
C5_TiersOnlyWhen ==
  Searched =>
    /\ TiersInOrder
    /\ Ran("tier2") => MatchesOf("tier1") < 5
    /\ Ran("tier3") => MatchesOf("tier1") + MatchesOf("tier2") < 3
    /\ tOp = "findMatchingProducts" =>
         /\ Ran("tier2") <=> MatchesOf("tier1") < 5
         /\ Ran("tier3") <=> MatchesOf("tier1") + MatchesOf("tier2") < 3
    /\ tOp = "findMatchingProductsFast" =>
         /\ Ran("tier2") <=> MatchesOf("tier1") < 5
         /\ ~Ran("tier3")
    /\ tOp = "findMatchingProductsUltraFast" =>
         /\ Ran("tier2") <=> MatchesOf("tier1") < 3
         /\ ~Ran("tier3")

\* the ultra-fast variant found 3 or 4 candidates in tier 1 and left tier 2 out
C5_UltraFastStopsAtThree ==
  /\ tOp = "findMatchingProductsUltraFast"
  /\ Searched
  /\ MatchesOf("tier1") \in {3, 4}
  /\ ~Ran("tier2")

\* a collaborator of the call failed
CollaboratorFailed ==
  \/ tAnswers.categoryResult = Thrown
  \/ tAnswers.searchTiersResult = Thrown
  \/ tAnswers.qualityResult = Thrown

\* C9: when the category classifier, the search-term generator or the quality
\* re-ranker fails, the orchestrator still searches the tiers for the item.
C9_FailuresDoNotAbort ==
  (tOp \in {"findMatchingProducts", "findMatchingProductsFast"} /\ CollaboratorFailed)
    => tSearches # <<>>

----------------------------------------------------------------------------
(* applyQualityFilter on its own: one shortlist, one answer of the         *)
(* re-ranker, one call.                                                    *)

MaxShortlist == 3

MaxPicks == 3

FCandidates ==
  { Candidate(Product(Dairy, "Bio Vollmilch", 119, "1L"), Hundredths(650), "tier1"),
    Candidate(Product(Dairy, "ja! H-Milch", 89, "1L"), Hundredths(600), "tier1"),
    Candidate(Product(Dairy, "Milram Buttermilch", 79, "500g"), Hundredths(300), "tier2") }

FShortlists == UNION { [1..n -> FCandidates] : n \in 0..MaxShortlist }

\* what OpenAIClient.qualityFilter may answer: up to MaxPicks indexes
\* from one below the first to one above the last a shortlist can have
FAnswers ==
  { QualityFilterResult(indexes) :
      indexes \in UNION { [1..n -> (0 - 1)..MaxShortlist] : n \in 0..MaxPicks } }

\* the variables no step of the quality filter changes
FRest == <<products, searchIndex, qVars, tVars, eVars, pVars, rVars, cVars, sVars, vVars, dVars, hVars, xVars>>

FInit ==
  /\ products = TProducts
  /\ searchIndex = Null
  /\ RIdle
  /\ CIdle
  /\ SIdle
  /\ VIdle
  /\ QIdle
  /\ TIdle
  /\ EIdle
  /\ PIdle
  /\ DIdle
  /\ HIdle
  /\ XIdle
  /\ fShortlist \in FShortlists
  /\ fQuality = Null
  /\ fOp = "none"
  /\ fResult = <<>>

\* applyQualityFilter(candidates, item), with the re-ranker's outcome
FApplyQualityFilter ==
  /\ fOp = "none"
  /\ \E qualityResult \in FAnswers \cup {Thrown} :
       /\ fQuality' = qualityResult
       /\ fResult' = applyQualityFilter(fShortlist, qualityResult)
  /\ fOp' = "applyQualityFilter"
  /\ UNCHANGED <<fShortlist, FRest>>

FNext == FApplyQualityFilter

SpecFilter == FInit /\ [][FNext]_vars

\* selection k of the answer names a member of the shortlist
InShortlist(k) ==
  /\ fQuality.selectedCandidates[k].index >= 0
  /\ fQuality.selectedCandidates[k].index < Len(fShortlist)

\* the selections that name a member of the shortlist
Kept == {k \in 1..Len(fQuality.selectedCandidates) : InShortlist(k)}

\* the j-th of them, in the order the re-ranker gave them
KeptAt(j) == CHOOSE k \in Kept : Cardinality({m \in Kept : m <= k}) = j

----------------------------------------------------------------------------
(* AdvancedSearchEngine.search over a small catalog.                       *)

\* a catalog of eight products in four categories; the first five have every
\* field, one of the others has no volume
Catalog ==
  << Product(Dairy, "Bio Vollmilch", 119, "1L"),
     Product(Dairy, "H-Milch", 89, "1L"),
     Product("Fleisch & Fisch", "Fester Tofu", 149, "200g"),
     Product(Dairy, "Eier Freiland", 259, "10 Stück"),
     Product("Kochen & Backen", "Weizenmehl", 89, "1 kg"),
     Product("Obst & Gemüse", "Zwiebeln rot", 129, "1 kg"),
     Product("Kochen & Backen", "Dinkelmehl", 129, Undefined),
     Product("Obst & Gemüse", "Petersilie", 99, "Bund") >>

\* the queries given to search
EQueries ==
  {"milch", "Bio Milch", "mehl", "tofu fest", "eier", "zwiebeln", "Petersilie, frisch", ""}

\* the target category lists given to search
ECategoryLists ==
  { <<>>,
    <<Dairy>>,
    <<"Kochen & Backen">>,
    <<"Obst & Gemüse", "Fleisch & Fisch">> }

\* the configurations given to search
EConfigs == {getDefaultConfig, WorldClassConfig}

ERest == <<products, searchIndex, qVars, tVars, fVars, pVars, rVars, cVars, sVars, vVars, dVars, hVars, xVars>>

EInit ==
  /\ products = Catalog
  /\ searchIndex = buildSearchIndex(products)
  /\ RIdle
  /\ CIdle
  /\ SIdle
  /\ VIdle
  /\ QIdle
  /\ TIdle
  /\ FIdle
  /\ PIdle
  /\ DIdle
  /\ HIdle
  /\ XIdle
  /\ eQuery \in EQueries
  /\ eCategories \in ECategoryLists
  /\ eConfig \in EConfigs
  /\ eOp = "none"
  /\ eResults = <<>>

\* the engine the service constructed over its catalog
Engine == [products |-> products, index |-> searchIndex]

\* search(query, categories, config)
ESearch ==
  /\ eOp = "none"
  /\ \E found \in {search(Engine, eQuery, eCategories, eConfig)} :
       eResults' = found
  /\ eOp' = "search"
  /\ UNCHANGED <<eQuery, eCategories, eConfig>>
  /\ UNCHANGED ERest

ENext == ESearch

SpecEngine == EInit /\ [][ENext]_vars

\* the 0.8 above which a result outside the target categories is kept
CategoryOverride == Hundredths(80)

\* C6: with a non-empty list of target categories, every result search
\* returns has a category of the list or a fused score of at least 0.8.
C6_CategoryGate ==
  (eOp = "search" /\ eCategories # <<>>) =>
    \A k \in 1..Len(eResults) :
      \/ SeqIncludes(eCategories, eResults[k].product.category)
      \/ eResults[k].score >= CategoryOverride

\* search returned results for target categories that leave out a product
\* of the catalog whose text holds a term of the query
C6_GateExcludedAMatch ==
  /\ eOp = "search"
  /\ eCategories # <<>>
  /\ eResults # <<>>
  /\ \E i \in 1..Len(products) :
       /\ ~SeqIncludes(eCategories, products[i].category)
       /\ \E term \in SeqToSet(tokenize(preprocessQuery(eQuery))) :
            Includes[ToLowerCase[products[i].title], term]

----------------------------------------------------------------------------
(* GroceryService.processShoppingList over the catalog above.              *)

\* an optional property of a parsed object: absent, or present with a value
Absent == <<>>

Present(value) == <<value>>

\* optional || []
OrEmptyList(optional) == IF optional = Absent THEN <<>> ELSE optional[1]

\* an item of the answer of OpenAIClient.parseShoppingList
ParsedItem(item, amount, unit, original, attributes, alternatives, item_type) ==
  [item |-> item, amount |-> amount, unit |-> unit, original |-> original,
   attributes |-> attributes, alternatives |-> alternatives, item_type |-> item_type]

\* fallbackParse: the items of the lines from index i on
FallbackItems[lines \in Texts, i \in Int] ==
  IF i > Len(lines) THEN <<>>
  ELSE IF Trim[lines[i]] = "" THEN FallbackItems[lines, i + 1]
  ELSE <<ShoppingItem(Trim[lines[i]], 1, "stück", Trim[lines[i]], <<>>, <<>>, "unknown")>>
       \o FallbackItems[lines, i + 1]

fallbackParse(list) == FallbackItems[Split[Trim[list], "\n"], 1]

\* parseShoppingList: parsed is the answer of OpenAIClient.parseShoppingList,
\* or Thrown
parseShoppingList(list, parsed) ==
  IF parsed = Thrown THEN fallbackParse(list)
  ELSE [k \in 1..Len(parsed.items) |->
          ShoppingItem(parsed.items[k].item, parsed.items[k].amount, parsed.items[k].unit,
                       parsed.items[k].original, OrEmptyList(parsed.items[k].attributes),
                       OrEmptyList(parsed.items[k].alternatives), parsed.items[k].item_type)]

ParsedOrFallbackMutant(list, parsed, timedOut) == parseShoppingList(list, parsed)

\* processShoppingList, step 1: the parse raced against the timeout
ParsedOrFallback(list, parsed, timedOut) ==
  IF timedOut THEN fallbackParse(list) ELSE parseShoppingList(list, parsed)

\* candidatesLog[text] = candidates.slice(0, 3)
LogCandidates(log, text, candidates) ==
  [t \in DOMAIN log \cup {text} |->
     IF t = text THEN SubSeq(candidates, 1, Min[3, Len(candidates)]) ELSE log[t]]

\* processShoppingList, step 2: whether the item goes to foundItems
ItemFound(candidates, bestMatch) == candidates # <<>> /\ bestMatch # Null

\* processShoppingList, step 2: foundItems after an item
FoundAfter(found, candidates, bestMatch) ==
  IF ItemFound(candidates, bestMatch) THEN Append(found, bestMatch) ELSE found

NotFoundAfterMutant(missing, item, candidates, bestMatch) ==
  IF candidates = <<>> THEN Append(missing, item.originalText) ELSE missing

\* processShoppingList, step 2: notFound after an item
NotFoundAfter(missing, item, candidates, bestMatch) ==
  IF ItemFound(candidates, bestMatch) THEN missing ELSE Append(missing, item.originalText)

\* foundItems.reduce((sum, item) => sum + item.totalPrice, 0), from index i
\* on, over the total prices of the matches
ReduceTotalPrice[totalPrices \in Seq(Int), sum \in Int, i \in Int] ==
  IF i > Len(totalPrices) THEN sum
  ELSE ReduceTotalPrice[totalPrices, sum + totalPrices[i], i + 1]

TotalCostMutant(found) ==
  ReduceTotalPrice[[k \in 1..Len(found) |-> found[k].product.price], 0, 1]

\* processShoppingList: totalCost
TotalCost(found) ==
  ReduceTotalPrice[[k \in 1..Len(found) |-> found[k].totalPrice], 0, 1]

\* the longest answer of OpenAIClient.parseShoppingList
MaxItems == 3

\* the items OpenAIClient.parseShoppingList answers with
ParsedItems ==
  { ParsedItem("milch", 2, "l", "2 l Milch", Absent, Absent, "dairy"),
    ParsedItem("mehl", 1500, "g", "1,5 kg Mehl", Present(<<>>), Absent, "dry_goods"),
    ParsedItem("dinkelmehl", 500, "g", "500g Dinkelmehl", Absent, Absent, "dry_goods"),
    ParsedItem("kichererbsen", 1, "stück", "1 Dose Kichererbsen", Absent, Present(<<>>), "canned"),
    ParsedItem("petersilie", 1, "stück", "1 Bund Petersilie", Present(<<"frisch">>), Absent, "fresh_produce") }

\* the answers of OpenAIClient.parseShoppingList
ParsedLists ==
  {[items |-> q] : q \in UNION {[1..n -> ParsedItems] : n \in 0..MaxItems}}

\* the shopping lists given to processShoppingList
ShoppingLists == {" Milch\n\n 400g Tofu \nDinkelmehl\n", " \n"}

PRest == <<products, searchIndex, qVars, tVars, fVars, eVars, rVars, cVars, sVars, vVars, dVars, hVars, xVars>>

Init ==
  /\ products = Catalog
  /\ searchIndex = buildSearchIndex(products)
  /\ RIdle
  /\ CIdle
  /\ SIdle
  /\ VIdle
  /\ QIdle
  /\ TIdle
  /\ FIdle
  /\ EIdle
  /\ DIdle
  /\ HIdle
  /\ XIdle
  /\ shoppingList \in ShoppingLists
  /\ shoppingItems = <<>>
  /\ pc = "parse"
  /\ itemsDone = 0
  /\ processed = <<>>
  /\ candidatesLog = <<>>
  /\ foundItems = <<>>
  /\ notFound = <<>>
  /\ totalCost = 0
  /\ parseOutcome = Null

\* processShoppingList, step 1: parse the list, fall back when the parser
\* fails or takes longer than the timeout
Parse ==
  /\ pc = "parse"
  /\ \E parsed \in ParsedLists \cup {Thrown}, timedOut \in BOOLEAN :
       /\ shoppingItems' = ParsedOrFallback(shoppingList, parsed, timedOut)
       /\ parseOutcome' = [timedOut |-> timedOut, answered |-> parsed # Thrown]
  /\ pc' = "items"
  /\ UNCHANGED <<shoppingList, itemsDone, processed, candidatesLog, foundItems, notFound,
                 totalCost>>
  /\ UNCHANGED PRest

\* processShoppingList, step 2: one iteration of the loop over the items
ProcessItem ==
  /\ pc = "items"
  /\ itemsDone < Len(shoppingItems)
  /\ LET item == shoppingItems[itemsDone + 1]
     IN  \E candidates \in {findMatchingProductsWorldClass(Engine, item)} :
           \E bestMatch \in {IF candidates = <<>> THEN Null
                             ELSE calculateQuantitySimple(item, candidates[1])} :
             /\ candidatesLog' = LogCandidates(candidatesLog, item.originalText, candidates)
             /\ foundItems' = FoundAfter(foundItems, candidates, bestMatch)
             /\ notFound' = NotFoundAfter(notFound, item, candidates, bestMatch)
             /\ processed' = Append(processed, [originalText |-> item.originalText,
                                                candidates |-> candidates,
                                                bestMatch |-> bestMatch])
  /\ itemsDone' = itemsDone + 1
  /\ UNCHANGED <<shoppingList, shoppingItems, pc, totalCost, parseOutcome>>
  /\ UNCHANGED PRest

\* processShoppingList: the total cost and the result
Finish ==
  /\ pc = "items"
  /\ itemsDone = Len(shoppingItems)
  /\ totalCost' = TotalCost(foundItems)
  /\ pc' = "done"
  /\ UNCHANGED <<shoppingList, shoppingItems, itemsDone, processed, candidatesLog,
                 foundItems, notFound, parseOutcome>>
  /\ UNCHANGED PRest

Next == Parse \/ ProcessItem \/ Finish

Spec == Init /\ [][Next]_vars

\* the iterations of the history that ended with a match
WasFound(entry) == entry.candidates # <<>> /\ entry.bestMatch # Null

\* the matches of the first k iterations, in the order of the items
HistoryFound[k \in Nat] ==
  IF k = 0 THEN <<>>
  ELSE HistoryFound[k - 1]
       \o (IF WasFound(processed[k]) THEN <<processed[k].bestMatch>> ELSE <<>>)

\* the original texts of the items of the first k iterations that ended
\* without a match
HistoryMissed[k \in Nat] ==
  IF k = 0 THEN <<>>
  ELSE HistoryMissed[k - 1]
       \o (IF WasFound(processed[k]) THEN <<>> ELSE <<processed[k].originalText>>)

\* C1: every parsed item that has been processed contributed exactly one
\* entry, to foundItems or to notFound: the two lengths add up to the number
\* of items processed, an item with no candidates or with an unresolved
\* quantity (the null match of a quantity calculation that raised an
\* exception) is in notFound and the items after it are processed, and the
\* result is returned only after every parsed item has been processed.
C1_EveryItemInOneList ==
  /\ Len(processed) = itemsDone
  /\ itemsDone <= Len(shoppingItems)
  /\ \A k \in 1..itemsDone : processed[k].originalText = shoppingItems[k].originalText
  /\ Len(foundItems) + Len(notFound) = itemsDone
  /\ foundItems = HistoryFound[Len(processed)]
  /\ notFound = HistoryMissed[Len(processed)]
  /\ pc = "done" => itemsDone = Len(shoppingItems)

\* the quantity calculation of iteration k raised an exception: the volume
\* of the best candidate's product is undefined
QuantityThrew(k) ==
  /\ processed[k].candidates # <<>>
  /\ processed[k].candidates[1].product.volume = Undefined
  /\ processed[k].bestMatch = Null

\* a result was returned for a list of three items of which the first had
\* no candidates, the second raised an exception in the quantity
\* calculation, and the third was matched
C1_FailuresThenMatch ==
  /\ pc = "done"
  /\ itemsDone = 3
  /\ processed[1].candidates = <<>>
  /\ QuantityThrew(2)
  /\ WasFound(processed[3])
  /\ Len(foundItems) = 1
  /\ notFound = <<processed[1].originalText, processed[2].originalText>>

\* C3: every match in foundItems has totalPrice = unitsNeeded * price of
\* its product.
C3_TotalPriceIsUnitsTimesPrice ==
  \A k \in 1..Len(foundItems) :
    foundItems[k].totalPrice = foundItems[k].unitsNeeded * foundItems[k].product.price

\* foundItems holds a match of more than one unit decided on each branch of
\* the quantity calculation that processShoppingList reaches: the product
\* has the item's unit, the units are converted, the product has no volume
C3_EveryBranchMatched ==
  /\ pc = "done"
  /\ \E k \in 1..Len(foundItems) :
       /\ foundItems[k].unitsNeeded >= 2
       /\ foundItems[k].actualUnit = "l"
  /\ \E k \in 1..Len(foundItems) :
       /\ foundItems[k].unitsNeeded >= 2
       /\ foundItems[k].actualUnit = "g"
  /\ \E k \in 1..Len(foundItems) :
       /\ foundItems[k].product.volume = "Bund"
       /\ foundItems[k].unitsNeeded = 1

\* the sum of totalPrice over the matches of foundItems up to index k
SumOfTotalPrices[k \in Nat] ==
  IF k = 0 THEN 0 ELSE SumOfTotalPrices[k - 1] + foundItems[k].totalPrice

\* C4: in the result totalCost is the sum of totalPrice over the matches in
\* foundItems, 0 when there is none; the items in notFound add nothing.
C4_TotalCostIsSum ==
  pc = "done" => totalCost = SumOfTotalPrices[Len(foundItems)]

\* a result with two matches of different total price, one of them of more
\* than one unit, and an item not found
C4_TwoMatchesAndAMiss ==
  /\ pc = "done"
  /\ Len(foundItems) = 2
  /\ foundItems[1].totalPrice # foundItems[2].totalPrice
  /\ foundItems[1].unitsNeeded >= 2
  /\ Len(notFound) = 1
  /\ totalCost = foundItems[1].totalPrice + foundItems[2].totalPrice

\* the tiers of a Candidate
CandidateTiers == {"tier1", "tier2", "tier3"}

\* the tiers of a Match
MatchTiers == CandidateTiers \cup {"ai_smart"}

\* C8: every candidate of a match has a tier of tier1, tier2, tier3 and
\* every match in foundItems has a tier of these or ai_smart.
C8_TiersAreClosed ==
  /\ \A k \in 1..Len(processed) : \A c \in 1..Len(processed[k].candidates) :
       processed[k].candidates[c].tier \in CandidateTiers
  /\ \A k \in 1..Len(foundItems) : foundItems[k].matchTier \in MatchTiers

----------------------------------------------------------------------------
(* OpenAIClient.retryWithBackoff (src/src/lib/volume-parser.ts)            *)

\* what a call of operation does: it returns a value or throws an error
Fulfilled(value) == [tag |-> "fulfilled", value |-> value]

Rejected(error) == [tag |-> "rejected", error |-> error]

\* new Error(message)
JsError(message) == [isError |-> TRUE, message |-> message]

\* a thrown value that is no Error
NoError == [isError |-> FALSE, message |-> Undefined]

\* retryWithBackoff: don't retry on certain errors
DontRetry(error) ==
  /\ error.isError
  /\ \/ Includes[error.message, "Invalid API key"]
     \/ Includes[error.message, "rate limit"]
     \/ Includes[error.message, "quota"]

BackoffDelayMutant(initialDelay, attempt) == initialDelay * 2 * attempt

\* initialDelay * Math.pow(2, attempt)
BackoffDelay(initialDelay, attempt) == initialDelay * 2 ^ attempt

\* the default of maxRetries
DefaultMaxRetries == 2

\* the default of initialDelay, in milliseconds
DefaultInitialDelay == 1000

\* the largest maxRetries given to retryWithBackoff
MaxRetries == 3

\* what a call of operation may do
ROutcomes ==
  {Fulfilled("response")}
    \cup {Rejected(JsError(message)) :
            message \in {"Invalid API key", "rate limit exceeded",
                         "You exceeded your current quota", "Connection error"}}
    \cup {Rejected(NoError)}

RRest == <<products, searchIndex, qVars, tVars, fVars, eVars, pVars, cVars, sVars, vVars, dVars, hVars, xVars>>

RInit ==
  /\ products = <<>>
  /\ searchIndex = Null
  /\ QIdle
  /\ TIdle
  /\ FIdle
  /\ EIdle
  /\ PIdle
  /\ CIdle
  /\ SIdle
  /\ VIdle
  /\ DIdle
  /\ HIdle
  /\ XIdle
  /\ rMaxRetries \in 0..MaxRetries
  /\ rInitialDelay \in {DefaultInitialDelay, DefaultInitialDelay \div 4}
  /\ rAttempt = 0
  /\ rOutcomes = <<>>
  /\ rDelays = <<>>
  /\ rLastError = Undefined
  /\ rPc = "loop"
  /\ rResult = Null

\* one iteration of the loop whose call of operation returns
RAttemptReturns ==
  /\ rPc = "loop"
  /\ rAttempt <= rMaxRetries
  /\ \E outcome \in ROutcomes :
       /\ outcome.tag = "fulfilled"
       /\ rOutcomes' = Append(rOutcomes, outcome)
       /\ rResult' = outcome
  /\ rPc' = "returned"
  /\ UNCHANGED <<rMaxRetries, rInitialDelay, rAttempt, rDelays, rLastError>>
  /\ UNCHANGED RRest

\* one iteration of the loop whose call of operation throws: the catch
\* breaks, and lastError is thrown, or it waits and the loop goes on
RAttemptThrows ==
  /\ rPc = "loop"
  /\ rAttempt <= rMaxRetries
  /\ \E outcome \in ROutcomes :
       /\ outcome.tag = "rejected"
       /\ rOutcomes' = Append(rOutcomes, outcome)
       /\ rLastError' = outcome.error
       /\ IF rAttempt = rMaxRetries \/ DontRetry(outcome.error)
          THEN /\ rResult' = Rejected(rLastError')
               /\ rPc' = "thrown"
               /\ UNCHANGED <<rAttempt, rDelays>>
          ELSE /\ rDelays' = Append(rDelays, BackoffDelay(rInitialDelay, rAttempt))
               /\ rAttempt' = rAttempt + 1
               /\ UNCHANGED <<rPc, rResult>>
  /\ UNCHANGED <<rMaxRetries, rInitialDelay>>
  /\ UNCHANGED RRest

RNext == RAttemptReturns \/ RAttemptThrows

SpecRetry == RInit /\ [][RNext]_vars

\* the message of the error names an invalid API key or an exhausted quota
KeyOrQuotaError(error) ==
  /\ error.isError
  /\ \/ Includes[error.message, "Invalid API key"]
     \/ Includes[error.message, "quota"]

\* the message of the error names a rate limit
RateLimitError(error) == error.isError /\ Includes[error.message, "rate limit"]

\* the call of retryWithBackoff has ended
RFinished == rPc \in {"returned", "thrown"}

\* C11: retryWithBackoff calls operation at most maxRetries + 1 times, makes
\* no call after one that returned and returns that call's value, waits
\* initialDelay * 2^k before the retry that follows failed attempt k, makes
\* no call after an error of an invalid API key or an exhausted quota, and
\* throws the error of its last call when that call was the last permitted.
C11_BoundedRetryWithBackoff ==
  /\ Len(rOutcomes) <= rMaxRetries + 1
  /\ \A j \in 1..(Len(rOutcomes) - 1) :
       /\ rOutcomes[j].tag = "rejected"
       /\ ~KeyOrQuotaError(rOutcomes[j].error)
  /\ Len(rDelays) = (IF RFinished THEN Len(rOutcomes) - 1 ELSE Len(rOutcomes))
  /\ \A k \in 0..(Len(rDelays) - 1) : rDelays[k + 1] = rInitialDelay * 2 ^ k
  /\ rPc = "returned" =>
       /\ rOutcomes[Len(rOutcomes)].tag = "fulfilled"
       /\ rResult = rOutcomes[Len(rOutcomes)]
  /\ rPc = "thrown" =>
       /\ rOutcomes[Len(rOutcomes)].tag = "rejected"
       /\ rResult = rOutcomes[Len(rOutcomes)]
  /\ rPc = "loop" =>
       /\ Len(rOutcomes) <= rMaxRetries
       /\ \A j \in 1..Len(rOutcomes) :
            rOutcomes[j].tag = "rejected" /\ ~KeyOrQuotaError(rOutcomes[j].error)

\* with the defaults, three calls failed, the waits were 1000 and 2000
\* milliseconds, and the error of the third call was thrown
C11_ThreeAttemptsThenThrown ==
  /\ rPc = "thrown"
  /\ rMaxRetries = DefaultMaxRetries
  /\ rInitialDelay = DefaultInitialDelay
  /\ Len(rOutcomes) = 3
  /\ rDelays = <<1000, 2000>>
  /\ rOutcomes[1].error # rOutcomes[3].error
  /\ rResult = Rejected(rOutcomes[3].error)

\* C12: a call that fails with a rate-limit error is retried until the
\* retry ceiling is reached; only then is the error thrown to the stage.
C12_RateLimitIsRetried ==
  (rPc = "thrown" /\ RateLimitError(rOutcomes[Len(rOutcomes)].error)) =>
    Len(rOutcomes) = rMaxRetries + 1

----------------------------------------------------------------------------
(* Claims about the parse of processShoppingList.                          *)

\* the lines from index i on that hold more than white space, trimmed
NonBlankFrom[lines \in Texts, i \in Int] ==
  IF i > Len(lines) THEN <<>>
  ELSE (IF \E k \in 1..Len(lines[i]) : ~IsSpace(CharAt[lines[i], k])
        THEN <<Trim[lines[i]]>> ELSE <<>>) \o NonBlankFrom[lines, i + 1]

\* the non-blank lines of the shopping list, in the order of the list
NonBlankLines == NonBlankFrom[Split[shoppingList, "\n"], 1]

\* the parser failed, or had not answered when the timeout fired
ParserFailedOrLate == parseOutcome # Null /\ (parseOutcome.timedOut \/ ~parseOutcome.answered)

\* C13: when the list parser fails, or has not answered when the parsing
\* timeout fires, the items processed are the non-blank lines of the list in
\* the order of the list, each one item of amount 1 and unit stück; the late
\* answer of the parser is not used.
C13_FallbackIsTheLines ==
  ParserFailedOrLate =>
    /\ Len(shoppingItems) = Len(NonBlankLines)
    /\ \A k \in 1..Len(shoppingItems) :
         /\ shoppingItems[k].item = NonBlankLines[k]
         /\ shoppingItems[k].originalText = NonBlankLines[k]
         /\ shoppingItems[k].amount = 1
         /\ shoppingItems[k].unit = "stück"
    /\ \A k \in 1..Len(processed) : processed[k].originalText = NonBlankLines[k]

\* the timeout fired, the parser answered afterwards, and the three non-blank
\* lines of a list with a blank line and padded lines were processed
C13_LateAnswerUnused ==
  /\ pc = "done"
  /\ parseOutcome.timedOut
  /\ parseOutcome.answered
  /\ Len(Split[shoppingList, "\n"]) > 3
  /\ Len(processed) = 3
  /\ processed[2].originalText = "400g Tofu"

----------------------------------------------------------------------------
\* The table paths of category determination (determineCategoriesNoAI and the
\* fallback of determineCategoriesSimple)

REWE_CATEGORIES ==
  { "Obst & Gemüse", "Fertiggerichte & Konserven", "Fleisch & Fisch", "Kochen & Backen",
    "Käse, Eier & Molkerei", "Brot, Cerealien & Aufstriche", "Süßes & Salziges",
    "Öle, Soßen & Gewürze" }

KeysOf(categoryMap) == { categoryMap[k][1] : k \in 1..Len(categoryMap) }

\* names that hold no keyword, hold one in capitals, or hold two
CPlainNames == {"Kichererbsen", "Tomaten", "quinoa", "Knoblauchbutter"}

COriginals == {"", "1 Bund Petersilie", "3 Dosen"}

CItemTypes ==
  { "fresh_produce", "dairy", "meat", "dry_goods", "herbs_spices", "canned", "condiments",
    "grains", "spreads", "unknown", Undefined }

\* every keyword of the two tables as an item name, and the plain names with
\* every original text and item type
CItems ==
  { ShoppingItem(name, 1, "stück", "", <<>>, <<>>, itemType) :
      name \in KeysOf(categoryMapNoAI) \cup KeysOf(categoryMapSimple),
      itemType \in {"dairy", Undefined} }
  \cup
  { ShoppingItem(name, 1, "stück", original, <<>>, <<>>, itemType) :
      name \in CPlainNames, original \in COriginals, itemType \in CItemTypes }

\* what OpenAIClient.determineCategories may answer
CAnswers == { Thrown, [categories |-> <<>>], [categories |-> <<"Süßes & Salziges">>] }

CRest == <<products, searchIndex, qVars, tVars, fVars, eVars, pVars, rVars, sVars, vVars, dVars, hVars, xVars>>

CInit ==
  /\ products = <<>>
  /\ searchIndex = Null
  /\ QIdle /\ TIdle /\ FIdle /\ EIdle /\ PIdle /\ RIdle /\ SIdle /\ VIdle
  /\ DIdle
  /\ HIdle
  /\ XIdle
  /\ cItem \in CItems
  /\ cAnswer = Null
  /\ cOp = "none"
  /\ cCategories = <<>>

CNoAI ==
  /\ cOp = "none"
  /\ \E found \in {determineCategoriesNoAI(cItem)} :
       /\ cCategories' = found
       /\ cOp' = "determineCategoriesNoAI"
  /\ UNCHANGED <<cItem, cAnswer, CRest>>

CSimple ==
  /\ cOp = "none"
  /\ \E categoryResult \in CAnswers :
       /\ cAnswer' = categoryResult
       /\ \E found \in {determineCategoriesSimple(cItem, categoryResult)} :
            cCategories' = found
  /\ cOp' = "determineCategoriesSimple"
  /\ UNCHANGED <<cItem, CRest>>

CNext == CNoAI \/ CSimple

SpecCategories == CInit /\ [][CNext]_vars

\* the table path ran: determineCategoriesNoAI, or determineCategoriesSimple
\* after the classifier threw or answered no category
TablePathRan ==
  \/ cOp = "determineCategoriesNoAI"
  \/ cOp = "determineCategoriesSimple" /\ (cAnswer = Thrown \/ cAnswer = [categories |-> <<>>])

TableUsed == IF cOp = "determineCategoriesNoAI" THEN categoryMapNoAI ELSE categoryMapSimple

KeyHeld(key) ==
  \/ Includes[ToLowerCase[cItem.item], key]
  \/ Includes[ToLowerCase[cItem.originalText], key]

SomeKeyHeld == \E k \in 1..Len(TableUsed) : KeyHeld(TableUsed[k][1])

TypeHasDefault == typeCategories(cItem.itemType) # <<>>

\* C14: the table path of category determination yields one or two categories,
\* all of the fixed store vocabulary; the keyword table is consulted first
\* (the first entry in table order whose keyword the item name or the original
\* text holds), the defaults of the item type are used only when no keyword is
\* held, and the default pair only when the item type has no defaults either.
C14_TableThenTypeThenDefault ==
  TablePathRan =>
    /\ Len(cCategories) \in 1..2
    /\ \A k \in 1..Len(cCategories) : cCategories[k] \in REWE_CATEGORIES
    /\ SomeKeyHeld =>
         \E k \in 1..Len(TableUsed) :
           /\ KeyHeld(TableUsed[k][1])
           /\ \A j \in 1..(k - 1) : ~KeyHeld(TableUsed[j][1])
           /\ cCategories = TableUsed[k][2]
    /\ (~SomeKeyHeld /\ TypeHasDefault) => cCategories = typeCategories(cItem.itemType)
    /\ (~SomeKeyHeld /\ ~TypeHasDefault) => cCategories = <<"Kochen & Backen", "Obst & Gemüse">>

\* a dairy item whose name holds a keyword of another category got the
\* category of the keyword
C14_KeywordBeatsItemType ==
  /\ cOp = "determineCategoriesNoAI"
  /\ cItem.itemType = "dairy"
  /\ SomeKeyHeld
  /\ cCategories # typeCategories(cItem.itemType)

----------------------------------------------------------------------------
\* The search terms the orchestrators hand to the tier searches

\* findMatchingProducts searches with the answer of OpenAIClient.generateSearchTiers,
\* findMatchingProductsFast with generateSearchTiers (the answer, or the
\* rule-based tiers when the collaborator threw), findMatchingProductsUltraFast
\* with generateSimpleSearchTiers
TiersHanded ==
  IF tOp = "findMatchingProducts" THEN tAnswers.searchTiersResult
  ELSE IF tOp = "findMatchingProductsFast"
       THEN generateSearchTiers(tItem, tAnswers.searchTiersResult)
       ELSE generateSimpleSearchTiers(tItem)

\* C15 as stated: the tiers handed to the tier searches hold at most 6 tier-1
\* terms, at most 6 tier-2 terms and at most 4 tier-3 terms, whether the
\* collaborator or generateSimpleSearchTiers produced them.
C15_TiersBounded ==
  Searched =>
    /\ Len(TiersHanded.tier1) <= 6
    /\ Len(TiersHanded.tier2) <= 6
    /\ Len(TiersHanded.tier3) <= 4

----------------------------------------------------------------------------
\* Loading and validating the catalog (src/src/lib/supabase.ts) and
\* initializeService (src/unnamed/part_001).  A catalog entry is kept as what
\* JSON.parse made of it: the kind of the value and, per required field, the
\* typeof of its value or "absent".

requiredFields == <<"category", "title", "price", "volume", "url">>

FieldNames == {requiredFields[k] : k \in 1..Len(requiredFields)}

JsonEntry(json, fields) == [json |-> json, fields |-> fields]

NoFields == [field \in FieldNames |-> "absent"]

ProductFields == [field \in FieldNames |-> IF field = "price" THEN "number" ELSE "string"]

ProductEntry == JsonEntry("object", ProductFields)

JsonArray(items) == [json |-> "array", items |-> items]

\* a JSON value that is no array: an object, or null
JsonOther(json) == [json |-> json, items |-> <<>>]

\* the five sample products
getSampleProducts == JsonArray([k \in 1..5 |-> ProductEntry])

FileAbsent == [state |-> "absent", value |-> JsonOther("null")]

FileUnreadable == [state |-> "unreadable", value |-> JsonOther("null")]

FileUnparsable == [state |-> "unparsable", value |-> JsonOther("null")]

FileParsed(value) == [state |-> "parsed", value |-> value]

\* readFileSync or JSON.parse throws, and so does products.length of null;
\* the catch answers with the sample products, as does a missing file
loadProducts(file) ==
  IF file.state = "absent" THEN getSampleProducts
  ELSE IF file.state \in {"unreadable", "unparsable"} THEN getSampleProducts
  ELSE IF file.value.json = "null" THEN getSampleProducts
  ELSE file.value

ValidatedSample == 5

\* the checks of one entry of the sample
EntryValid(product) ==
  /\ product.json = "object"
  /\ \A k \in 1..Len(requiredFields) : product.fields[requiredFields[k]] # "absent"
  /\ product.fields["category"] = "string"
  /\ product.fields["title"] = "string"
  /\ product.fields["price"] = "number"
  /\ product.fields["volume"] = "string"
  /\ product.fields["url"] = "string"

validateProducts(loaded) ==
  /\ loaded.json = "array"
  /\ LET sampleSize == Min[ValidatedSample, Len(loaded.items)]
     IN  \A i \in 1..sampleSize : EntryValid(loaded.items[i])

\* new GroceryService(products): buildSearchIndex and getCategoryStats read
\* product.title and product.category of every entry, which throws on null
ConstructorThrows(loaded) == \E i \in 1..Len(loaded.items) : loaded.items[i].json = "null"

\* initializeService without the test of the singleton
initializeServiceMutant(service, file) ==
  IF ~validateProducts(loadProducts(file)) THEN [groceryService |-> Null, thrown |-> TRUE]
  ELSE IF ConstructorThrows(loadProducts(file)) THEN [groceryService |-> Null, thrown |-> TRUE]
  ELSE [groceryService |-> [products |-> loadProducts(file).items], thrown |-> FALSE]

\* the singleton after initializeService, and whether the call threw
initializeService(service, file) ==
  IF service # Null THEN [groceryService |-> service, thrown |-> FALSE]
  ELSE IF ~validateProducts(loadProducts(file)) THEN [groceryService |-> Null, thrown |-> TRUE]
  ELSE IF ConstructorThrows(loadProducts(file)) THEN [groceryService |-> Null, thrown |-> TRUE]
  ELSE [groceryService |-> [products |-> loadProducts(file).items], thrown |-> FALSE]

MaxCatalog == 6

\* the malformed entries: null, a number, an object without category or url,
\* an object whose price is a string or whose title is a number
MalformedEntries ==
  { JsonEntry("null", NoFields),
    JsonEntry("number", NoFields),
    JsonEntry("object", [ProductFields EXCEPT !["category"] = "absent"]),
    JsonEntry("object", [ProductFields EXCEPT !["url"] = "absent"]),
    JsonEntry("object", [ProductFields EXCEPT !["price"] = "string"]),
    JsonEntry("object", [ProductFields EXCEPT !["title"] = "number"]) }

\* catalogs of up to MaxCatalog entries with at most one malformed entry
SCatalogs ==
  { [k \in 1..n |-> ProductEntry] : n \in 0..MaxCatalog }
  \cup
  { [k \in 1..n |-> IF k = at THEN bad ELSE ProductEntry] :
      n \in 1..MaxCatalog, at \in 1..MaxCatalog, bad \in MalformedEntries }

SFiles ==
  { FileAbsent, FileUnreadable, FileUnparsable,
    FileParsed(JsonOther("null")), FileParsed(JsonOther("object")) }
  \cup { FileParsed(JsonArray(items)) : items \in SCatalogs }

SRest == <<products, searchIndex, qVars, tVars, fVars, eVars, pVars, rVars, cVars, vVars, dVars, hVars, xVars>>

SInit ==
  /\ products = <<>>
  /\ searchIndex = Null
  /\ QIdle /\ TIdle /\ FIdle /\ EIdle /\ PIdle /\ RIdle /\ CIdle /\ VIdle
  /\ DIdle
  /\ HIdle
  /\ XIdle
  /\ sFile \in SFiles
  /\ sOp = "none"
  /\ groceryService = Null

SInitializeService ==
  /\ \E done \in {initializeService(groceryService, sFile)} :
       /\ groceryService' = done.groceryService
       /\ sOp' = IF done.thrown THEN "thrown" ELSE "returned"
  /\ UNCHANGED <<sFile, SRest>>

SNext == SInitializeService

SpecService == SInit /\ [][SNext]_vars

IsCatalogFile == sFile.state = "parsed" /\ sFile.value.json = "array"

HasMalformedEntry ==
  /\ IsCatalogFile
  /\ \E i \in 1..Len(sFile.value.items) : ~EntryValid(sFile.value.items[i])

\* C16 as stated: a catalog with a malformed record at any position is
\* rejected by validateProducts, and initializeService constructs no
\* GroceryService from it.
C16_MalformedCatalogRejected ==
  (HasMalformedEntry /\ sOp # "none") =>
    /\ ~validateProducts(sFile.value)
    /\ sOp = "thrown"
    /\ groceryService = Null

\* an empty array, or a product file that cannot be read or parsed
UnusableCatalog ==
  \/ sFile.state \in {"unreadable", "unparsable"}
  \/ IsCatalogFile /\ sFile.value.items = <<>>

\* C17 as stated: an unusable catalog (empty array, unreadable or unparsable
\* product file) aborts the construction: initializeService throws and no
\* GroceryService is created; no empty or substitute catalog is run.
C17_UnusableCatalogAborts ==
  (UnusableCatalog /\ sOp # "none") =>
    /\ sOp = "thrown"
    /\ groceryService = Null

----------------------------------------------------------------------------
\* VolumeParser.parseVolume, convertToGrams and calculateUnitsNeeded on their own

\* a text, with the form it was written in: "plain" (a unit), "pack" (a x b unit),
\* "circa" (ca. a unit) or "none"
TextInput(text, form, a, b, unit) ==
  [kind |-> "text", text |-> text, form |-> form, a |-> a, b |-> b, unit |-> unit,
   neededAmount |-> 0, neededUnit |-> "", productAmount |-> 0, productUnit |-> ""]

QuantityInput(neededAmount, neededUnit, productAmount, productUnit) ==
  [kind |-> "quantity", text |-> "", form |-> "none", a |-> 0, b |-> 0, unit |-> "",
   neededAmount |-> neededAmount, neededUnit |-> neededUnit,
   productAmount |-> productAmount, productUnit |-> productUnit]

VTexts ==
  { TextInput("500g", "plain", 500, 1, "g"),
    TextInput("500 g", "plain", 500, 1, "g"),
    TextInput("1L", "plain", 1, 1, "l"),
    TextInput("3 kg", "plain", 3, 1, "kg"),
    TextInput("250ml", "plain", 250, 1, "ml"),
    TextInput("6 Stück", "plain", 6, 1, "stück"),
    TextInput("10 stuck", "plain", 10, 1, "stück"),
    TextInput("Rispentomaten, 500g", "plain", 500, 1, "g"),
    TextInput("2x100ml", "pack", 2, 100, "ml"),
    TextInput("6x330ml", "pack", 6, 330, "ml"),
    TextInput("4x125g", "pack", 4, 125, "g"),
    TextInput("2x1l", "pack", 2, 1, "l"),
    TextInput("ca. 3kg", "circa", 3, 1, "kg"),
    TextInput("ca.200g", "circa", 200, 1, "g"),
    TextInput("ca. 500ml", "circa", 500, 1, "ml"),
    TextInput("Bund", "none", 0, 0, ""),
    TextInput("", "none", 0, 0, ""),
    TextInput("3 Dosen", "none", 0, 0, ""),
    TextInput("x2", "none", 0, 0, ""),
    TextInput("kg", "none", 0, 0, "") }

VUnits == {"g", "kg", "ml", "l", "stück", "KG", "Stück", "dose"}

VNeededAmounts == {0, 1, 2, 650, 1500}

VProductAmounts == {0, 1, 4, 500}

VQuantities ==
  { QuantityInput(neededAmount, neededUnit, productAmount, productUnit) :
      neededAmount \in VNeededAmounts, neededUnit \in VUnits,
      productAmount \in VProductAmounts, productUnit \in VUnits }

VRest == <<products, searchIndex, qVars, tVars, fVars, eVars, pVars, rVars, cVars, sVars, dVars, hVars, xVars>>

VInit ==
  /\ products = <<>>
  /\ searchIndex = Null
  /\ QIdle /\ TIdle /\ FIdle /\ EIdle /\ PIdle /\ RIdle /\ CIdle /\ SIdle
  /\ DIdle
  /\ HIdle
  /\ XIdle
  /\ vInput \in VTexts \cup VQuantities
  /\ vOp = "none"
  /\ vResult = Null

VParseVolume ==
  /\ vOp = "none"
  /\ vInput.kind = "text"
  /\ \E found \in {parseVolume(vInput.text)} : vResult' = found
  /\ vOp' = "parseVolume"
  /\ UNCHANGED <<vInput, VRest>>

VConvertToGrams ==
  /\ vOp = "none"
  /\ vInput.kind = "quantity"
  /\ vResult' = convertToGrams(vInput.neededAmount, vInput.neededUnit)
  /\ vOp' = "convertToGrams"
  /\ UNCHANGED <<vInput, VRest>>

VCalculateUnitsNeeded ==
  /\ vOp = "none"
  /\ vInput.kind = "quantity"
  /\ vResult' = calculateUnitsNeeded(vInput.neededAmount, vInput.neededUnit,
                                     vInput.productAmount, vInput.productUnit)
  /\ vOp' = "calculateUnitsNeeded"
  /\ UNCHANGED <<vInput, VRest>>

VNext == VParseVolume \/ VConvertToGrams \/ VCalculateUnitsNeeded

SpecVolume == VInit /\ [][VNext]_vars

VolumeOf(amount, unit) == [tag |-> "volume", amount |-> amount, unit |-> unit]

\* C18 as stated: parseVolume yields amount N for a plain "N unit" text, amount
\* A*B with the unit for a pack text "AxB unit", amount N for "ca. N unit", and
\* none for a text matching no pattern.
C18_ParseVolumeByForm ==
  vOp = "parseVolume" =>
    /\ vInput.form = "plain" => vResult = VolumeOf(vInput.a, vInput.unit)
    /\ vInput.form = "pack" => vResult = VolumeOf(vInput.a * vInput.b, vInput.unit)
    /\ vInput.form = "circa" => vResult = VolumeOf(vInput.a, vInput.unit)
    /\ vInput.form = "none" => vResult = Null

\* the factor to the comparable scale, 0 for a unit that has none
ComparableFactor(unit) ==
  IF ToLowerCase[unit] \in {"g", "ml"} THEN 1
  ELSE IF ToLowerCase[unit] \in {"kg", "l"} THEN 1000
  ELSE 0

IsPiece(unit) == ToLowerCase[unit] = "stück"

\* n is the ceiling of target / pack: the least count of packs that covers the
\* target; the quotient by a pack of 0 is Infinity, or NaN for 0 / 0
IsCeilingOf(n, target, pack) ==
  IF pack = 0 THEN n = (IF target = 0 THEN JsNaN ELSE JsInfinity)
  ELSE n * pack >= target /\ (n - 1) * pack < target

\* C19: calculateUnitsNeeded returns the ceiling of the quotient of the
\* comparable amounts when both units are of g, kg, ml, l (g and ml scaled by
\* 1, kg and l by 1000, mass and volume interchangeable), the ceiling of
\* target / pack when both units are piece, and none in every other case.
C19_UnitsNeededIsCeiling ==
  vOp = "calculateUnitsNeeded" =>
    LET targetFactor == ComparableFactor(vInput.neededUnit)
        packFactor   == ComparableFactor(vInput.productUnit)
    IN  IF targetFactor > 0 /\ packFactor > 0
        THEN /\ vResult # Null
             /\ IsCeilingOf(vResult.v, vInput.neededAmount * targetFactor,
                            vInput.productAmount * packFactor)
        ELSE IF IsPiece(vInput.neededUnit) /\ IsPiece(vInput.productUnit)
        THEN /\ vResult # Null
             /\ IsCeilingOf(vResult.v, vInput.neededAmount, vInput.productAmount)
        ELSE vResult = Null

\* 650 g wanted of packs of 500 g: 2 packs, where rounding would give 1
C19_SixFiftyOfFiveHundred ==
  /\ vOp = "calculateUnitsNeeded"
  /\ vInput.neededAmount = 650 /\ vInput.neededUnit = "g"
  /\ vInput.productAmount = 500 /\ vInput.productUnit = "g"
  /\ vResult = Num(2)

----------------------------------------------------------------------------
\* The amount a Match of calculateQuantitySimple reports

\* the pack quantity calculateQuantitySimple reads off the candidate
PackOf(candidate) == parseVolume(candidate.product.volume)

BothMassOrVolume ==
  /\ qOp = "simple"
  /\ qMatch # Null
  /\ PackOf(qCand) \notin {Null, Thrown}
  /\ PackOf(qCand).amount > 0
  /\ IsMassOrVolume(qItem.unit)
  /\ IsMassOrVolume(PackOf(qCand).unit)

\* C20 as stated: for a requested amount and a pack whose units are both of
\* g, kg, ml, l, the actualAmount in actualUnit of the Match equals, on the
\* comparable scale (g, ml = 1; kg, l = 1000), unitsNeeded times the pack amount
\* in the pack unit.
C20_ActualIsUnitsTimesPack ==
  BothMassOrVolume =>
    qMatch.actualAmount.num * ComparableFactor(qMatch.actualUnit)
      = qMatch.actualAmount.den * qMatch.unitsNeeded * PackOf(qCand).amount
          * ComparableFactor(PackOf(qCand).unit)

----------------------------------------------------------------------------
\* calculateQuantitySimple against VolumeParser.calculateUnitsNeeded

\* a requested amount >= 1 and a pack, both in units of g, kg, ml, l
AmountAndPackComparable == BothMassOrVolume /\ qItem.amount >= 1

\* C29 as stated: for every requested amount >= 1 and pack whose units are
\* both of g, kg, ml, l (mixed mass and volume included), the unitsNeeded of
\* the Match of calculateQuantitySimple equals what calculateUnitsNeeded
\* returns for the same four arguments.
C29_SimpleAgreesWithUnitParser ==
  AmountAndPackComparable =>
    Num(qMatch.unitsNeeded)
      = calculateUnitsNeeded(qItem.amount, qItem.unit,
                             PackOf(qCand).amount, PackOf(qCand).unit)

----------------------------------------------------------------------------
\* The category gate of the keyword search with an empty target set

\* findMatchingProducts searched with the empty category list of the classifier
EmptyTargetSet ==
  /\ tOp = "findMatchingProducts"
  /\ Searched
  /\ tAnswers.categoryResult = [categories |-> <<>>]

\* the catalog products whose keyword score reaches the threshold of Tier 1
Tier1Scorers ==
  { i \in 1..Len(products) :
      basicKeywordScore(products[i], TiersHanded.tier1) >= Hundredths(80) }

\* C25 as stated: category filtering is applied only when the target set is
\* non-empty; with an empty target set every catalog product is eligible for
\* scoring in the category-gated keyword search of the orchestrator, so the
\* Tier 1 search matches every product whose score reaches the threshold.
C25_EmptySetScoresEveryProduct ==
  EmptyTargetSet => MatchesOf("tier1") = Cardinality(Tier1Scorers)

----------------------------------------------------------------------------
(* diversifyResults on ranked result lists (src/unnamed/part_004)          *)

\* the longest ranked list handed to diversifyResults
MaxResults == 22

\* the brands and categories of the ranked products
DBrands == {"REWE", "EDEKA"}

DCategories == {"Milch", "Brot"}

\* the scores of the lower ranks: 0.9, 0.2, 0.125, 0.1, 0.09
DScores == {Hundredths(90), Hundredths(20), ScoreUnit \div 8, Hundredths(10), Hundredths(9)}

\* the diversity factors of the two search configurations
DFactors == {getDefaultConfig.diversityFactor, WorldClassConfig.diversityFactor}

DProduct(i, brand, category) ==
  Product(category, brand \o " Artikel " \o ToString(i), 199, "1 Stück")

DResult(product, score) ==
  SearchResult(product, score, "good", Breakdown(0, 0, 0, 0, 0, 0, score))

\* a list ranked by score, as applyRankingFusion leaves it: the ranks before
\* rank p hold REWE milk at 0.9, rank p holds a product of the given brand
\* and category at the given score, the ranks after it hold REWE milk at
\* that score
DRanked(n, p, brand, category, score) ==
  [i \in 1..n |->
     IF i < p THEN DResult(DProduct(i, "REWE", "Milch"), Hundredths(90))
     ELSE IF i = p THEN DResult(DProduct(i, brand, category), score)
     ELSE DResult(DProduct(i, "REWE", "Milch"), score)]

\* the catalog the ranked products are drawn from; it offers both brands
DCatalogOf(ranked) ==
  [i \in 1..Len(ranked) |-> ranked[i].product]
    \o <<DProduct(0, "REWE", "Milch"), DProduct(0, "EDEKA", "Brot")>>

DRest == <<searchIndex, qVars, tVars, fVars, eVars, pVars, rVars, cVars, sVars, vVars, hVars, xVars>>

DInit ==
  /\ \E n \in 0..MaxResults, brand \in DBrands, category \in DCategories,
        score \in DScores :
       \E p \in 0..n :
         /\ dResults = DRanked(n, p, brand, category, score)
         /\ products = DCatalogOf(dResults)
  /\ dFactor \in DFactors
  /\ dOp = "none"
  /\ dOutput = <<>>
  /\ searchIndex = Null
  /\ QIdle /\ TIdle /\ FIdle /\ EIdle /\ PIdle /\ RIdle /\ CIdle /\ SIdle /\ VIdle
  /\ HIdle
  /\ XIdle

\* one call of diversifyResults
DDiversifyResults ==
  /\ dOp = "none"
  /\ \E output \in {diversifyResults(dResults, dFactor)} :
       dOutput' = output
  /\ dOp' = "diversifyResults"
  /\ UNCHANGED <<products, dResults, dFactor, DRest>>

DNext == DDiversifyResults

SpecDiversify == DInit /\ [][DNext]_vars

BrandsOf(results) == {extractBrand(results[i].product.title) : i \in 1..Len(results)}

\* the top 5 of the ranked list share one brand
TopFiveShareBrand ==
  /\ Len(dResults) >= 5
  /\ Cardinality(BrandsOf(SubSeq(dResults, 1, 5))) = 1

CatalogOffersBrands ==
  Cardinality({extractBrand(products[i].title) : i \in 1..Len(products)}) > 1

\* C23 as stated: when the top 5 of a ranked list share one brand, the
\* catalog offers more than one brand and diversifyResults retains 5 or
\* more results, the retained results show at least 2 distinct brands
C23_TwoBrandsAmongFive ==
  (/\ dOp = "diversifyResults"
   /\ TopFiveShareBrand
   /\ CatalogOffersBrands
   /\ Len(dOutput) >= 5)
    => Cardinality(BrandsOf(dOutput)) >= 2

\* the ranks of the input that diversifyResults returned
KeptRanks == {k \in 1..Len(dResults) : \E j \in 1..Len(dOutput) : dOutput[j] = dResults[k]}

RankOf(result) == CHOOSE k \in 1..Len(dResults) : dResults[k] = result

\* the output is a subsequence of the input, in the order of the input
InInputOrder ==
  /\ \A j \in 1..Len(dOutput) : \E k \in 1..Len(dResults) : dResults[k] = dOutput[j]
  /\ \A a, b \in 1..Len(dOutput) : a < b => RankOf(dOutput[a]) < RankOf(dOutput[b])

CollectedBefore(k) == Cardinality({j \in KeptRanks : j < k})

\* the score of rank k after the penalty for a brand and a category that
\* the results collected before it already show
PenalisedScore(k) ==
  AdjustedScore[dResults[k].score,
                \E j \in KeptRanks :
                  /\ j < k
                  /\ extractBrand(dResults[j].product.title)
                       = extractBrand(dResults[k].product.title),
                \E j \in KeptRanks :
                  j < k /\ dResults[j].product.category = dResults[k].product.category,
                dFactor]

DroppedRanks == (1..Len(dResults)) \ KeptRanks

\* C24 as stated: the output is a subsequence of the input in input order,
\* the first 3 results are kept, a later result is dropped only if its
\* penalised score is below 0.1 and 10 results are already collected (or
\* the 20 of the limit are), and the output has at most 20 results
C24_DiversifyContract ==
  dOp = "diversifyResults" =>
    /\ InInputOrder
    /\ \A k \in 1..Min[3, Len(dResults)] : dOutput[k] = dResults[k]
    /\ \A k \in DroppedRanks :
         \/ /\ JsLess[PenalisedScore(k), Hundredths(10)]
            /\ CollectedBefore(k) >= 10
         \/ CollectedBefore(k) >= 20
    /\ Len(dOutput) <= 20

\* what the loop does holds with "not above 0.1" in the place of "below 0.1"
C24_DroppedWhenNotAboveThreshold ==
  dOp = "diversifyResults" =>
    /\ InInputOrder
    /\ \A k \in 1..Min[3, Len(dResults)] : dOutput[k] = dResults[k]
    /\ \A k \in DroppedRanks :
         \/ /\ ~JsLess[Hundredths(10), PenalisedScore(k)]
            /\ CollectedBefore(k) >= 10
         \/ CollectedBefore(k) >= 20
    /\ Len(dOutput) <= 20

\* a result whose penalised score is exactly 0.1 is dropped
DroppedAtThreshold ==
  /\ dOp = "diversifyResults"
  /\ \E k \in DroppedRanks :
       PenalisedScore(k) = Hundredths(10) /\ CollectedBefore(k) >= 10

----------------------------------------------------------------------------
(* The product ids of retrieveCandidates and of buildSearchIndex           *)

PassesCategoryFilter(product) ==
  Len(eCategories) = 0 \/ SeqIncludes(eCategories, product.category)

\* the place in the catalog of the product at place i of categoryProducts
CatalogPlace(i) ==
  CHOOSE j \in 1..Len(products) :
    /\ PassesCategoryFilter(products[j])
    /\ Cardinality({m \in 1..j : PassesCategoryFilter(products[m])}) = i

\* retrieveCandidates: the id under which the table of the product at place
\* i of categoryProducts is looked up
LookupId(i) == ProductId(CategoryProducts[products, eCategories][i], i - 1)

\* C28 as stated: for every product that passes the category filter, the id
\* used for the lookup is the id under which buildSearchIndex recorded the
\* product, and the table found is the table of that product
C28_LookupIdIsIndexedId ==
  eOp = "search" =>
    \A i \in 1..Len(CategoryProducts[products, eCategories]) :
      /\ LookupId(i) = searchIndex.termFrequency[CatalogPlace(i)][1]
      /\ ProductTF(searchIndex, LookupId(i))
           = searchIndex.termFrequency[CatalogPlace(i)][2]

\* a returned product whose text holds a term of the query has the TF-IDF
\* score 0, as the lookup found no table
TableMissedForResult ==
  /\ eOp = "search"
  /\ \E k \in 1..Len(eResults) :
       /\ eResults[k].relevanceBreakdown.tfidf = 0
       /\ calculateTFIDF(Engine, tokenize(preprocessQuery(eQuery)),
                         searchIndex.termFrequency[
                           CHOOSE j \in 1..Len(products) :
                             products[j] = eResults[k].product][1],
                         eResults[k].product) > 0

----------------------------------------------------------------------------
(* The candidate list of the tiered orchestrators                          *)

\* the scored candidates of all tiers searched, before the quality filter
\* and removeDuplicateSimilarProducts
ScoredCandidates ==
  CASE tOp = "findMatchingProducts" ->
         Scored[Tier3IfBelow[3,
                  Tier2IfBelow[5,
                    Tier1Searched[products, tAnswers.categoryResult.categories,
                                  tAnswers.searchTiersResult],
                    products, tAnswers.categoryResult.categories,
                    tAnswers.searchTiersResult],
                  products, tAnswers.categoryResult.categories,
                  tAnswers.searchTiersResult],
                tAnswers.searchTiersResult, tItem].candidates
    [] tOp = "findMatchingProductsFast" ->
         Scored[Tier2IfBelow[5,
                  Tier1Searched[products,
                                determineCategoriesSimple(tItem, tAnswers.categoryResult),
                                generateSearchTiers(tItem, tAnswers.searchTiersResult)],
                  products, determineCategoriesSimple(tItem, tAnswers.categoryResult),
                  generateSearchTiers(tItem, tAnswers.searchTiersResult)],
                generateSearchTiers(tItem, tAnswers.searchTiersResult), tItem].candidates
    [] OTHER ->
         Scored[Tier2IfBelow[3,
                  Tier1Searched[products, determineCategoriesNoAI(tItem),
                                generateSimpleSearchTiers(tItem)],
                  products, determineCategoriesNoAI(tItem),
                  generateSimpleSearchTiers(tItem)],
                generateSimpleSearchTiers(tItem), tItem].candidates

\* two titles that removeDuplicateSimilarProducts takes for one product
NearIdentical(title1, title2) ==
  \/ NormalizedTitle[title1] = NormalizedTitle[title2]
  \/ TitlesSimilar[NormalizedTitle[title1], NormalizedTitle[title2]]

NoNearIdenticalPair ==
  \A a, b \in 1..Len(tCandidates) :
    a < b => ~NearIdentical(tCandidates[a].product.title, tCandidates[b].product.title)

InScoreOrder ==
  \A k \in 1..(Len(tCandidates) - 1) : tCandidates[k].score >= tCandidates[k + 1].score

\* a returned candidate has the highest score of the scored candidates
\* whose titles are near-identical to its own
BestOfGroupReturned ==
  LET scored == ScoredCandidates
  IN  \A r \in 1..Len(tCandidates) :
        \A e \in 1..Len(scored) :
          NearIdentical(scored[e].product.title, tCandidates[r].product.title)
            => scored[e].score <= tCandidates[r].score

\* C26 as stated: the list an orchestrator returns holds no two candidates
\* with near-identical titles (Jaccard similarity above 0.8), is in
\* non-increasing order of score, and holds of each group of near-identical
\* titles the candidate with the highest score
C26_DedupSortedBest ==
  tOp # "none" => NoNearIdenticalPair /\ InScoreOrder /\ BestOfGroupReturned

\* the quality filter ran: more than 12 scored candidates, and an answer
QualityFilterRan ==
  /\ tOp = "findMatchingProducts"
  /\ tCandidates # <<>>
  /\ Len(ScoredCandidates) > 12
  /\ tAnswers.qualityResult # Thrown

----------------------------------------------------------------------------
(* findMatchingProductsWorldClass on its own, over the catalog of the      *)
(* engine                                                                  *)

WNames == {"milch", "eier", "petersilie", "tofu", "mehl"}

WAttributes == {<<>>, <<"frisch">>, <<"bio">>}

WAmounts == {2, 250}

WUnits == {"l", "g", "stück"}

\* the items given to findMatchingProductsWorldClass
WItems ==
  { ShoppingItem(name, amount, unit, name, attributes, <<>>, "dairy") :
      name \in WNames, amount \in WAmounts, unit \in WUnits, attributes \in WAttributes }

WInit ==
  /\ products = Catalog
  /\ searchIndex = buildSearchIndex(products)
  /\ QIdle /\ FIdle /\ EIdle /\ PIdle /\ RIdle /\ CIdle /\ SIdle /\ VIdle /\ DIdle
  /\ HIdle
  /\ XIdle
  /\ tItem \in WItems
  /\ tOp = "none"
  /\ tAnswers = Null
  /\ tSearches = <<>>
  /\ tCandidates = <<>>

\* one call of findMatchingProductsWorldClass, as processShoppingList makes it
TFindMatchingProductsWorldClass ==
  /\ tOp = "none"
  /\ \E candidates \in {findMatchingProductsWorldClass(Engine, tItem)} :
       TReturn("findMatchingProductsWorldClass", Answers(NotAsked, NotAsked, NotAsked),
               Found(candidates, <<>>))

WNext == TFindMatchingProductsWorldClass

SpecWorldClass == WInit /\ [][WNext]_vars

\* the first of the candidates has the highest score of them
FirstIsBest(candidates) ==
  \A j \in 1..Len(candidates) : candidates[j].score <= candidates[1].score

\* C27 as stated: the first candidate of the list findMatchingProductsWorldClass
\* returns, the one processShoppingList makes the Match from, has the
\* highest of the scores the candidates carry after the enhancement
C27_TopCandidateHasHighestScore ==
  tOp = "findMatchingProductsWorldClass" => FirstIsBest(tCandidates)

\* the search engine ranked the results by its own score, and a later one
\* carries the higher score after the enhancement
OutscoredAfterEnhancement ==
  /\ tOp = "findMatchingProductsWorldClass"
  /\ \E j \in 2..Len(tCandidates) :
       /\ tCandidates[j].score > tCandidates[1].score
       /\ tCandidates[j].relevanceBreakdown.final
            <= tCandidates[1].relevanceBreakdown.final
  /\ calculateQuantitySimple(tItem, tCandidates[1]) # Null

----------------------------------------------------------------------------
(* POST /api/process-list: requests in flight at the same time             *)
(* (src/unnamed/part_001).  A request gives way to the others at its       *)
(* awaits: the body, the initialisation, the processing.  initializeService *)
(* holds no await, so its body runs within the step that calls it.         *)

\* the requests in flight
MaxRequests == 2

Requests == 1..MaxRequests

\* what the products file holds when a request reads it
HFiles ==
  { FileAbsent,
    FileParsed(JsonArray(<<ProductEntry, ProductEntry>>)),
    FileParsed(JsonArray(<<ProductEntry>>)),
    FileParsed(JsonArray(<<JsonEntry("number", NoFields), ProductEntry>>)),
    FileParsed(JsonArray([k \in 1..MaxCatalog |->
                            IF k = MaxCatalog THEN JsonEntry("null", NoFields)
                            ELSE ProductEntry])) }

\* how the body of a request turns out
HBodies == {"timeout", "no list", "too long", "no key", "ok"}

\* how processShoppingList turns out
HOutcomes == {"result", "timeout", "error"}

HRest == <<products, searchIndex, qVars, tVars, fVars, eVars, pVars, rVars, cVars, vVars, dVars, xVars>>

HInit ==
  /\ products = <<>>
  /\ searchIndex = Null
  /\ QIdle /\ TIdle /\ FIdle /\ EIdle /\ PIdle /\ RIdle /\ CIdle /\ SIdle /\ VIdle
  /\ DIdle
  /\ XIdle
  /\ hPc = [r \in Requests |-> "idle"]
  /\ hInit = [r \in Requests |-> Null]
  /\ hService = [r \in Requests |-> Null]
  /\ hStatus = [r \in Requests |-> 0]
  /\ hInstances = {}

\* POST, up to await Promise.race([bodyPromise, timeoutPromise])
HPost(r) ==
  /\ hPc[r] = "idle"
  /\ hPc' = [hPc EXCEPT ![r] = "body"]
  /\ UNCHANGED <<hInit, hService, hStatus, hInstances, sVars, HRest>>

\* POST, from the body to the await of the initialisation: the checks of
\* the body, and the call of initializeService
HBody(r) ==
  /\ hPc[r] = "body"
  /\ \E body \in HBodies, file \in HFiles :
       \E done \in {initializeService(groceryService, file)} :
         IF body = "ok"
         THEN /\ groceryService' = done.groceryService
              /\ hInit' = [hInit EXCEPT ![r] = done]
              /\ hInstances' = hInstances \cup ({done.groceryService} \ {Null})
              /\ hPc' = [hPc EXCEPT ![r] = "init"]
              /\ UNCHANGED hStatus
         ELSE /\ hStatus' = [hStatus EXCEPT ![r] = IF body = "timeout" THEN 408
                                                   ELSE IF body = "no key" THEN 500
                                                   ELSE 400]
              /\ hPc' = [hPc EXCEPT ![r] = "done"]
              /\ UNCHANGED <<groceryService, hInit, hInstances>>
  /\ UNCHANGED <<hService, sFile, sOp, HRest>>

\* POST, from the await of the initialisation to the await of the processing
HInitialized(r) ==
  /\ hPc[r] = "init"
  /\ IF hInit[r].thrown
     THEN /\ hStatus' = [hStatus EXCEPT ![r] = 503]
          /\ hPc' = [hPc EXCEPT ![r] = "done"]
          /\ UNCHANGED hService
     ELSE /\ hService' = [hService EXCEPT ![r] = hInit[r].groceryService]
          /\ hPc' = [hPc EXCEPT ![r] = "process"]
          /\ UNCHANGED hStatus
  /\ UNCHANGED <<hInit, hInstances, sVars, HRest>>

\* POST, from the await of the processing to the response
HProcessed(r) ==
  /\ hPc[r] = "process"
  /\ \E outcome \in HOutcomes :
       hStatus' = [hStatus EXCEPT ![r] = IF outcome = "result" THEN 200
                                         ELSE IF outcome = "timeout" THEN 408
                                         ELSE 500]
  /\ hPc' = [hPc EXCEPT ![r] = "done"]
  /\ UNCHANGED <<hInit, hService, hInstances, sVars, HRest>>

HNext ==
  \/ \E r \in Requests : HPost(r)
  \/ \E r \in Requests : HBody(r)
  \/ \E r \in Requests : HInitialized(r)
  \/ \E r \in Requests : HProcessed(r)

SpecRoute == HInit /\ [][HNext]_vars

\* C30: whatever the interleaving of the requests, at most one
\* GroceryService is constructed; every request whose initialisation
\* succeeded holds that instance, which is the singleton; and as long as no
\* construction has succeeded the singleton is unset
C30_OneServiceForAllRequests ==
  /\ Cardinality(hInstances) <= 1
  /\ \A r \in Requests :
       /\ hService[r] # Null => hService[r] \in hInstances /\ hService[r] = groceryService
       /\ (hInit[r] # Null /\ ~hInit[r].thrown) => hInit[r].groceryService = groceryService
  /\ hInstances = {} <=> groceryService = Null

\* C30: once the singleton is set, no step of a request changes it
C30_SingletonKept ==
  [][groceryService # Null => groceryService' = groceryService]_vars

\* the initialisation of one request failed and left the singleton unset,
\* and the request that initialised after it constructed the service
C30_RetriedAfterFailure ==
  /\ \E r \in Requests : hStatus[r] = 503
  /\ \E r \in Requests : hService[r] # Null /\ hService[r] = groceryService
  /\ Cardinality(hInstances) = 1

\* two requests in flight at once hold the one instance
C30_TwoInFlightShareInstance ==
  \E r1, r2 \in Requests :
    /\ r1 # r2
    /\ hPc[r1] = "process" /\ hPc[r2] = "process"
    /\ hService[r1] = hService[r2]
    /\ hService[r1] # Null

----------------------------------------------------------------------------
(* Two calls of search in flight on one AdvancedSearchEngine               *)
(* (src/unnamed/part_004).  A call gives way to the other at its awaits:   *)
(* the one of calculateSemanticSimilarity in the loop of retrieveCandidates *)
(* and the one of retrieveCandidates in the loop of search.  Each step     *)
(* below runs the loop body of one product, or the code between the        *)
(* return of retrieveCandidates and the next await.                        *)

\* the catalog of the engine: dairy, dairy, meat & fish, dairy
XCatalog == SubSeq(Catalog, 1, 4)

Calls == {1, 2}

\* the arguments of the calls
XArguments ==
  { <<"milch", <<>>, getDefaultConfig>>,
    <<"milch", <<Dairy>>, WorldClassConfig>>,
    <<"tofu fest", <<"Fleisch & Fisch">>, WorldClassConfig>> }

\* buildSearchIndex: this.productIndex, the places of the products of each term
ProductIndexOf[productTerms \in Seq(Texts), allTerms \in Texts] ==
  [k \in 1..Len(allTerms) |->
     <<allTerms[k],
       {index - 1 : index \in {j \in 1..Len(productTerms) :
                                 allTerms[k] \in WordSet[productTerms[j]]}}>>]

\* a call of search: its arguments, and its locals processedQuery,
\* expandedQueries, candidates (search), found (candidates of
\* retrieveCandidates), k and i (the places in the two loops)
Call(arguments) ==
  [query |-> arguments[1], categories |-> arguments[2], config |-> arguments[3],
   pc |-> "idle", processedQuery |-> "", expandedQueries |-> <<>>, k |-> 0, i |-> 0,
   found |-> <<>>, candidates |-> <<>>, results |-> <<>>, overlapped |-> FALSE]

\* search: the call of retrieveCandidates for the expanded query k
StartRetrieval(call, k) == [call EXCEPT !.k = k, !.i = 1, !.found = <<>>]

\* search, stage 1, up to the first call of retrieveCandidates
SearchStarted(call) ==
  StartRetrieval(
    [call EXCEPT !.pc = "retrieve",
                 !.processedQuery = preprocessQuery(call.query),
                 !.expandedQueries =
                   IF call.config.queryExpansion
                   THEN expandQuery(preprocessQuery(call.query))
                   ELSE <<preprocessQuery(call.query)>>,
                 !.candidates = <<>>],
    1)

\* retrieveCandidates: the loop body for the product at place i
ProductScored(engine, call) ==
  [call EXCEPT
     !.found = @ \o ScoreProduct[engine, call.expandedQueries[call.k],
                                 tokenize(call.expandedQueries[call.k]),
                                 call.categories, call.config,
                                 CategoryProducts[engine.products, call.categories][call.i],
                                 call.i - 1],
     !.i = @ + 1]

\* the Map a miss of termFrequency.get falls back to, stored under the id
TermFrequencyStoringMiss(termFrequency, productId) ==
  IF \E k \in 1..Len(termFrequency) : termFrequency[k][1] = productId
  THEN termFrequency
  ELSE Append(termFrequency, <<productId, <<>>>>)

\* calculateTFIDF: this.termFrequency after
\* this.termFrequency.get(productId) || new Map(); get stores nothing
TermFrequencyAfterGet(termFrequency, productId) == termFrequency

\* the candidates of both calls, as a Map held by the engine would give them
SharedCandidates(calls, c) ==
  calls[CHOOSE d \in DOMAIN calls : d # c].candidates \o calls[c].candidates

\* search: const candidates = new Map(), a local of the call
OwnCandidates(calls, c) == calls[c].candidates

\* search: the merge of the results of retrieveCandidates into candidates
Merged(call, candidates) ==
  [call EXCEPT
     !.candidates =
       MergeFrom[candidates, call.found,
                 IF call.expandedQueries[call.k] = call.processedQuery
                 THEN ScoreUnit ELSE Hundredths(80),
                 1]]

\* search, stages 3 to 5, and the return
SearchReturned(call) ==
  [call EXCEPT
     !.pc = "done",
     !.results =
       SliceResults[
         applyQualityFilters(
           diversifyResults(applyRankingFusion(call.candidates, call.processedQuery),
                            call.config.diversityFactor),
           call.processedQuery, call.categories),
         call.config.maxResults]]

XRest == <<qVars, tVars, fVars, eVars, pVars, rVars, cVars, sVars, vVars, dVars, hVars>>

XInit ==
  /\ products = XCatalog
  /\ searchIndex = buildSearchIndex(products)
  /\ productIndex = ProductIndexOf[ProductTerms[products],
                                   Unique[ConcatFrom[ProductTerms[products], 1]]]
  /\ QIdle /\ TIdle /\ FIdle /\ EIdle /\ PIdle /\ RIdle /\ CIdle /\ SIdle /\ VIdle
  /\ DIdle /\ HIdle
  /\ \E arguments \in [Calls -> XArguments] :
       xCalls = [c \in Calls |-> Call(arguments[c])]

InFlight(c) == xCalls[c].pc = "retrieve"

\* search is called
XSearch(c) ==
  /\ xCalls[c].pc = "idle"
  /\ xCalls' =
       [d \in Calls |->
          IF d = c
          THEN [SearchStarted(xCalls[c]) EXCEPT
                  !.overlapped = \E e \in Calls : InFlight(e)]
          ELSE IF InFlight(d) THEN [xCalls[d] EXCEPT !.overlapped = TRUE]
          ELSE xCalls[d]]
  /\ UNCHANGED <<products, searchIndex, productIndex, XRest>>

\* retrieveCandidates scores one product
XScoreProduct(c) ==
  /\ InFlight(c)
  /\ xCalls[c].i <= Len(CategoryProducts[products, xCalls[c].categories])
  /\ \E scored \in {ProductScored(Engine, xCalls[c])} :
       xCalls' = [xCalls EXCEPT ![c] = scored]
  /\ searchIndex' =
       [searchIndex EXCEPT
          !.termFrequency =
            TermFrequencyAfterGet(
              @, ProductId(CategoryProducts[products, xCalls[c].categories][xCalls[c].i],
                           xCalls[c].i - 1))]
  /\ UNCHANGED <<products, productIndex, XRest>>

\* retrieveCandidates has returned: search merges its results and calls it
\* for the next expanded query
XMerge(c) ==
  /\ InFlight(c)
  /\ xCalls[c].i > Len(CategoryProducts[products, xCalls[c].categories])
  /\ xCalls[c].k < Len(xCalls[c].expandedQueries)
  /\ \E merged \in {Merged(xCalls[c], OwnCandidates(xCalls, c))} :
       xCalls' = [xCalls EXCEPT ![c] = StartRetrieval(merged, xCalls[c].k + 1)]
  /\ UNCHANGED <<products, searchIndex, productIndex, XRest>>

\* retrieveCandidates has returned for the last expanded query: search
\* merges its results, ranks, diversifies, filters and returns
XReturn(c) ==
  /\ InFlight(c)
  /\ xCalls[c].i > Len(CategoryProducts[products, xCalls[c].categories])
  /\ xCalls[c].k = Len(xCalls[c].expandedQueries)
  /\ \E merged \in {Merged(xCalls[c], OwnCandidates(xCalls, c))} :
       xCalls' = [xCalls EXCEPT ![c] = SearchReturned(merged)]
  /\ UNCHANGED <<products, searchIndex, productIndex, XRest>>

XNext ==
  \/ \E c \in Calls : XSearch(c)
  \/ \E c \in Calls : XScoreProduct(c)
  \/ \E c \in Calls : XMerge(c)
  \/ \E c \in Calls : XReturn(c)

SpecInterleaved == XInit /\ [][XNext]_vars

\* C21: after the constructor has returned, the catalog, the term-frequency
\* table, the document-frequency table and the postings map of the engine
\* are, before and after every step of every search, the ones the
\* constructor built
C21_IndexAsConstructed ==
  /\ products = XCatalog
  /\ searchIndex = buildSearchIndex(XCatalog)
  /\ productIndex = ProductIndexOf[ProductTerms[XCatalog],
                                   Unique[ConcatFrom[ProductTerms[XCatalog], 1]]]

\* C21: no step of a search changes them
C21_IndexUnchanged ==
  [][/\ products' = products
     /\ searchIndex' = searchIndex
     /\ productIndex' = productIndex]_vars

\* the search of call c looked up an id the index does not hold
LookupMissed(c) ==
  \E i \in 1..Len(CategoryProducts[products, xCalls[c].categories]) :
    \A k \in 1..Len(searchIndex.termFrequency) :
      searchIndex.termFrequency[k][1]
        # ProductId(CategoryProducts[products, xCalls[c].categories][i], i - 1)

\* both searches have returned, with results, and one of them after lookups
\* that missed
C21_SearchesReturnedAfterMisses ==
  /\ \A c \in Calls : xCalls[c].pc = "done" /\ xCalls[c].results # <<>>
  /\ \E c \in Calls : LookupMissed(c)

\* C22: a call that has returned, however its steps were interleaved with
\* those of the other call, returned the products, scores and order that
\* search returns for its arguments when it runs alone
C22_ResultsAsWhenRunAlone ==
  \A c \in Calls :
    xCalls[c].pc = "done" =>
      xCalls[c].results
        = search(AdvancedSearchEngine(XCatalog), xCalls[c].query, xCalls[c].categories,
                 xCalls[c].config)

\* both calls were in flight at the same time, and returned different,
\* non-empty results
C22_OverlappedCallsReturned ==
  /\ \A c \in Calls :
       xCalls[c].pc = "done" /\ xCalls[c].overlapped /\ xCalls[c].results # <<>>
  /\ xCalls[1].results # xCalls[2].results

\* a call is between two products of retrieveCandidates while the other
\* call holds candidates of its own
C22_MidRetrievalBesideCandidates ==
  \E c, d \in Calls :
    /\ c # d
    /\ InFlight(c) /\ xCalls[c].i > 1 /\ xCalls[c].found # <<>>
    /\ InFlight(d) /\ xCalls[d].candidates # <<>>

====
